---- MODULE Spec2Model ----
(***************************************************************************)
(* A model of the Lox-family interpreter: environments (envs.rs), the Pratt *)
(* parser (parser.rs), the tree-walk evaluator (evaluator.rs), the bytecode *)
(* compiler (compiler.rs) and the stack VM (vm.rs).                         *)
(*                                                                          *)
(* The module holds several specifications over one set of variables:       *)
(*   SpecEnv    the Env operations on a chain of environments               *)
(*   SpecParse  Parser::parse_expr on bounded token sequences               *)
(*   SpecEval   Evaluator::evaluate, one top-level statement per step       *)
(*   SpecVM     evaluate against compile + run on the shared subset         *)
(* A specification leaves the variables of the others at their idle value.  *)
(***************************************************************************)
EXTENDS Integers, Sequences, FiniteSets, TLC

VARIABLES
  mode,     \* which specification is running: "env", "parse", "eval", "vm"
  envs,     \* the environment nodes: <<[store, outer, current_class], ...>>
  cur,      \* the environment cursor (Evaluator.envs), an index into envs
  heap,     \* the shared cells (Rc<RefCell<HashMap>>): hash and field maps
  out,      \* the values written to standard output, in order
  status,   \* "ok", or how the process ended: "exit70", "panic", ...
  prog,     \* the top-level statements taken so far (their menu indices)
  last,     \* the input of the last step (operation, statement or tokens)
  res,      \* the result of the last step (a tree, a value, an output)
  vm,       \* the virtual machine: constants, stack, globals, ip, output
  lex,      \* the lexer: input, position, lines, errors
  imports,  \* the import loader: files, cache (seen), loaded programs
  builtins, \* the registry of built-in functions: builtins, sorted, indexs
  symbol_table  \* the chain of symbol tables, the current one last

vars == <<mode, envs, cur, heap, out, status, prog, last, res, vm, lex, imports, builtins, symbol_table>>

(***************************************************************************)
(* Bounds of the model.                                                     *)
(***************************************************************************)
MaxDepth == 3      \* environments on the chain in SpecEnv
MaxVal == 2        \* values 1..MaxVal stored by SpecEnv

(***************************************************************************)
(* objects.rs: Object.  One record shape per variant, so that the derived   *)
(* PartialEq is record equality (Number(1.0) and Index(1) are different).   *)
(***************************************************************************)
Number(n) == [t |-> "Number", n |-> n]
String(s) == [t |-> "String", s |-> s]
Boolean(b) == [t |-> "Boolean", b |-> b]
Index(i) == [t |-> "Index", i |-> i]
Nil == [t |-> "Nil"]
Hash(ref) == [t |-> "Hash", ref |-> ref]
ReturnValue(obj) == [t |-> "ReturnValue", obj |-> obj]
Function(params, body) == [t |-> "Function", params |-> params, body |-> body]
Class(name, properties) == [t |-> "Class", name |-> name, properties |-> properties]
ClassInstance(name, fields, properties) ==
  [t |-> "ClassInstance", name |-> name, fields |-> fields, properties |-> properties]

\* Option::None, for Option<Object> results and the current_class slot
None == [t |-> "None"]

EmptyMap == [x \in {} |-> None]

(***************************************************************************)
(* envs.rs: Env.  A node is [store, outer, current_class]; outer is an      *)
(* index into the node sequence, 0 for no outer environment.                *)
(***************************************************************************)
EnvNew == [store |-> EmptyMap, outer |-> 0, current_class |-> None]

NewWithOuter(outer) == [store |-> EmptyMap, outer |-> outer, current_class |-> None]

RECURSIVE EnvGet(_, _, _)
EnvGet(es, id, name) ==
  IF name \in DOMAIN es[id].store THEN es[id].store[name]
  ELSE IF es[id].outer # 0 THEN EnvGet(es, es[id].outer, name)
  ELSE None

StoreInsert(es, id, name, value) ==
  [es EXCEPT ![id].store = (name :> value) @@ es[id].store]

EnvSet(es, id, name, value) ==
  IF es[id].outer # 0
  THEN IF name \in DOMAIN es[es[id].outer].store
       THEN StoreInsert(es, es[id].outer, name, value)
       ELSE StoreInsert(es, id, name, value)
  ELSE StoreInsert(es, id, name, value)

EnvSetStore(es, id, name, value) == StoreInsert(es, id, name, value)

SetCurrentClass(es, id, class) == [es EXCEPT ![id].current_class = class]

GetCurrentClass(es, id) == es[id].current_class

ResetCurrentClass(es, id) == [es EXCEPT ![id].current_class = None]

(***************************************************************************)
(* token.rs: Token.  A token is [k, s]: its kind and, for identifiers,      *)
(* strings, numbers and comments, its text.                                 *)
(***************************************************************************)
T(k) == [k |-> k, s |-> ""]
TIdent(s) == [k |-> "Identifier", s |-> s]
TNumber(s) == [k |-> "Number", s |-> s]
TString(s) == [k |-> "String", s |-> s]
TComment(s) == [k |-> "Comment", s |-> s]
EofTok == T("Eof")

(***************************************************************************)
(* ast.rs: Precedence (the derived PartialOrd is the declaration order).    *)
(***************************************************************************)
PrecLowest == 0
PrecAnd == 1
PrecEquals == 2
PrecLessGreater == 3
PrecOpSelfSum == 4
PrecOpSelfMul == 5
PrecPlus == 6
PrecStar == 7
PrecPlusPlus == 8
PrecPrefix == 9
PrecCall == 10
PrecIndex == 11
PrecClass == 12

(***************************************************************************)
(* ast.rs: Stmt and ExprType.  One record shape per variant.                *)
(***************************************************************************)
NoneNode == [k |-> "None"]

StmtVar(name, expr) == [k |-> "Var", name |-> name, expr |-> expr]
StmtExpr(expr) == [k |-> "Expr", expr |-> expr]
StmtBlock(stmts) == [k |-> "Block", stmts |-> stmts]
StmtReturn(expr) == [k |-> "Return", expr |-> expr]
StmtFunction(name, params, body) ==
  [k |-> "Function", name |-> name, params |-> params, body |-> body]
StmtSwitch(expr, cases) == [k |-> "Switch", expr |-> expr, cases |-> cases]
StmtCase(expr, block) == [k |-> "Case", expr |-> expr, block |-> block]
StmtDefault(block) == [k |-> "Default", block |-> block]
StmtWhile(expr, block) == [k |-> "While", expr |-> expr, block |-> block]
StmtImport(s) == [k |-> "Import", s |-> s]
StmtClass(name, properties) ==
  [k |-> "ClassStmt", name |-> name, properties |-> properties]
StmtFor(init, conditions, step, block) ==
  [k |-> "For", init |-> init, conditions |-> conditions, step |-> step, block |-> block]
StmtForIn(var, iter, block) == [k |-> "ForIn", var |-> var, iter |-> iter, block |-> block]
StmtAssert(condition, message) ==
  [k |-> "Assert", condition |-> condition, message |-> message]

Ident(name) == [k |-> "Ident", name |-> name]
ThisExpr(name) == [k |-> "ThisExpr", name |-> name]
Literal(lit) == [k |-> "Literal", lit |-> lit]
LitArray(elements) == [k |-> "LitArray", elements |-> elements]
LitHash(pairs) == [k |-> "LitHash", pairs |-> pairs]
GroupingExpr(expr) == [k |-> "GroupingExpr", expr |-> expr]
PrefixExpr(op, expr) == [k |-> "PrefixExpr", op |-> op, expr |-> expr]
InfixExpr(left, op, right) ==
  [k |-> "InfixExpr", left |-> left, op |-> op, right |-> right]
PrintExpr(exprs) == [k |-> "PrintExpr", exprs |-> exprs]
IndexExpr(left, index) == [k |-> "IndexExpr", left |-> left, index |-> index]
IfExpr(condition, elseif, then_branch, else_branch) ==
  [k |-> "If", condition |-> condition, elseif |-> elseif,
   then_branch |-> then_branch, else_branch |-> else_branch]
FunctionExpr(params, body) == [k |-> "FunctionExpr", params |-> params, body |-> body]
Call(callee, args) == [k |-> "Call", callee |-> callee, args |-> args]
ClassInit(name, args) == [k |-> "ClassInit", name |-> name, args |-> args]
ClassCall(callee, method, args) ==
  [k |-> "ClassCall", callee |-> callee, method |-> method, args |-> args]
ClassGet(callee, prop) == [k |-> "ClassGet", callee |-> callee, prop |-> prop]
ThisCall(method, args) == [k |-> "ThisCall", method |-> method, args |-> args]

(***************************************************************************)
(* parser.rs: Parser.  The lexer hands out the tokens of toks and then Eof  *)
(* for ever.  The parser state p is [pos, errors, status]: current is the   *)
(* token at pos, next the token after it; errors is the lexer's error       *)
(* list; status is "ok" until the parser ends the process (exit), panics    *)
(* (unwrap on None) or repeats a loop iteration without consuming a token.  *)
(***************************************************************************)
Tok(toks, i) == IF i <= Len(toks) THEN toks[i] ELSE EofTok

ParserNew == [pos |-> 1, errors |-> <<>>, status |-> "ok"]

Cur(toks, p) == Tok(toks, p.pos)

PeekNext(toks, p) == Tok(toks, p.pos + 1)

RECURSIVE ParserNext(_, _)
ParserNext(toks, p) ==
  LET q == [p EXCEPT !.pos = IF p.pos > Len(toks) THEN p.pos ELSE p.pos + 1]
  IN IF Cur(toks, q).k = "Comment" THEN ParserNext(toks, q) ELSE q

LogError(p, message) == [p EXCEPT !.errors = Append(@, message)]

Dead(p) == p.status # "ok"

Some(p, node) == [p |-> p, node |-> node]

NoneAt(p) == [p |-> p, node |-> NoneNode]

Die(p, how) == [p |-> [p EXCEPT !.status = how], node |-> NoneNode]

TokenPrecedence(k) ==
  CASE k \in {"And", "Or"} -> PrecAnd
    [] k \in {"EqualEqual", "BangEqual", "Equal"} -> PrecEquals
    [] k \in {"Less", "LessEqual", "Greater", "GreaterEqual"} -> PrecLessGreater
    [] k \in {"SlashSelf", "StarSelf", "ModSelf"} -> PrecOpSelfMul
    [] k \in {"MinusSelf", "PlusSelf"} -> PrecOpSelfSum
    [] k \in {"PlusPlus", "MinusMinus"} -> PrecPlusPlus
    [] k \in {"Plus", "Minus"} -> PrecPlus
    [] k \in {"Star", "Mod", "Slash"} -> PrecStar
    [] k = "LeftParen" -> PrecCall
    [] k = "LeftBracket" -> PrecIndex
    [] k = "Dot" -> PrecCall
    [] OTHER -> PrecLowest

CurrentTokenPrecedence(toks, p) == TokenPrecedence(Cur(toks, p).k)

\* the operator tokens the infix loop of parse_expr hands to parse_infix_expr
InfixTokens ==
  {"Star", "Slash", "Plus", "Minus", "EqualEqual", "Equal", "BangEqual", "Less",
   "LessEqual", "Greater", "And", "Or", "MinusSelf", "PlusSelf", "StarSelf",
   "SlashSelf", "ModSelf", "Mod", "GreaterEqual"}

\* str::parse::<f64> on the number lexemes the model uses
Digits == <<"0", "1", "2", "3", "4", "5", "6", "7", "8", "9">>

ParseF64(s) ==
  IF \E i \in 1..Len(Digits) : Digits[i] = s
  THEN (CHOOSE i \in 1..Len(Digits) : Digits[i] = s) - 1
  ELSE -1

\* sequencing: the continuation K applied to the result r of the step before
Bind(r, K(_)) == K(r)

RECURSIVE ParseStmt(_, _), ParseStmtsUntil(_, _, _, _), ParseBlock(_, _),
          ParseExpr(_, _, _), ParseInfixLoop(_, _, _, _), ParseExprList(_, _, _, _),
          ParseIf(_, _), ParseElseIfs(_, _, _), ParseFunction(_, _),
          ParseHashLiteral(_, _), ParseHashPairs(_, _, _)

\* The loop shared by parse_call, parse_args_list, parse_new_class, the array
\* literal and print: parse expressions up to the closing token, skipping one
\* comma after each.  An iteration that consumes nothing repeats for ever.
ParseExprList(toks, p, acc, closer) ==
  IF Cur(toks, p).k = closer THEN [p |-> p, items |-> acc]
  ELSE Bind(ParseExpr(toks, p, PrecLowest), LAMBDA r :
         LET acc2 == IF r.node # NoneNode THEN Append(acc, r.node) ELSE acc
             p2 == IF Cur(toks, r.p).k = "Comma" THEN ParserNext(toks, r.p) ELSE r.p
         IN IF Dead(r.p) THEN [p |-> r.p, items |-> acc]
            ELSE IF p2.pos = p.pos THEN [p |-> [p2 EXCEPT !.status = "hang"], items |-> acc2]
            ELSE ParseExprList(toks, p2, acc2, closer))

ParseArgsList(toks, p) ==
  Bind(ParseExprList(toks, p, <<>>, "RightParen"), LAMBDA l :
    IF Dead(l.p) THEN l ELSE [p |-> ParserNext(toks, l.p), items |-> l.items])

ParseCall(toks, p, left) ==
  Bind(ParseArgsList(toks, ParserNext(toks, p)), LAMBDA l :
    IF Dead(l.p) THEN NoneAt(l.p) ELSE Some(l.p, Call(left, l.items)))

ParseNewClass(toks, p) ==
  LET p1 == ParserNext(toks, p)
      p2 == ParserNext(toks, p1)
  IN IF Cur(toks, p1).k # "Identifier" THEN Die(p1, "panic")
     ELSE IF Cur(toks, p2).k # "LeftParen"
     THEN NoneAt(LogError(p2, "Expect '(' after new"))
     ELSE Bind(ParseArgsList(toks, ParserNext(toks, p2)), LAMBDA l :
            IF Dead(l.p) THEN NoneAt(l.p)
            ELSE Some(l.p, ClassInit(Cur(toks, p1).s, l.items)))

ParseIndexExpr(toks, p, left) ==
  Bind(ParseExpr(toks, ParserNext(toks, p), PrecLowest), LAMBDA r :
    IF Dead(r.p) THEN NoneAt(r.p)
    ELSE IF r.node = NoneNode THEN Die(r.p, "panic")
    ELSE IF Cur(toks, r.p).k # "RightBracket"
    THEN NoneAt(LogError(r.p, "Expect ']' after index"))
    ELSE IF r.node.k = "Literal" /\ r.node.lit.t = "Number"
    THEN Some(ParserNext(toks, r.p), IndexExpr(left, Literal(Index(r.node.lit.n))))
    ELSE Some(ParserNext(toks, r.p), IndexExpr(left, r.node)))

ParseGroupedExpr(toks, p) ==
  Bind(ParseExpr(toks, ParserNext(toks, p), PrecLowest), LAMBDA r :
    IF Dead(r.p) THEN NoneAt(r.p)
    ELSE IF Cur(toks, r.p).k # "RightParen"
    THEN NoneAt(LogError(r.p, "Expect expression"))
    ELSE IF r.node # NoneNode THEN Some(ParserNext(toks, r.p), GroupingExpr(r.node))
    ELSE NoneAt(LogError(ParserNext(toks, r.p), "Expect expression")))

ParsePrefixExpr(toks, p) ==
  Bind(ParseExpr(toks, ParserNext(toks, p), PrecPrefix), LAMBDA r :
    IF Dead(r.p) THEN NoneAt(r.p)
    ELSE IF r.node # NoneNode THEN Some(r.p, PrefixExpr(Cur(toks, p).k, r.node))
    ELSE NoneAt(LogError(r.p, "Expect expression")))

ParseNumberLiteral(toks, p) ==
  Some(ParserNext(toks, p), Literal(Number(ParseF64(Cur(toks, p).s))))

\* parse_infix_expr without the re-read of the precedence after `=`
ParseInfixExprPlain(toks, p, left) ==
  Bind(ParseExpr(toks, ParserNext(toks, p), TokenPrecedence(Cur(toks, p).k)), LAMBDA r :
    IF Dead(r.p) THEN NoneAt(r.p)
    ELSE IF r.node # NoneNode THEN Some(r.p, InfixExpr(left, Cur(toks, p).k, r.node))
    ELSE NoneAt(LogError(r.p, "Expect expression")))

ParseInfixExpr(toks, p, left) ==
  LET op == Cur(toks, p).k
      p1 == ParserNext(toks, p)
      precedence == IF op = "Equal" THEN CurrentTokenPrecedence(toks, p1)
                    ELSE TokenPrecedence(op)
  IN Bind(ParseExpr(toks, p1, precedence), LAMBDA r :
       IF Dead(r.p) THEN NoneAt(r.p)
       ELSE IF r.node # NoneNode THEN Some(r.p, InfixExpr(left, op, r.node))
       ELSE NoneAt(LogError(r.p, "Expect expression")))

\* the loop of parse_block, of the block statement, of parse_case_block and
\* of parse: statements up to a closing token; a None statement breaks it
ParseStmtsUntil(toks, p, acc, closers) ==
  IF Cur(toks, p).k \in closers THEN [p |-> p, items |-> acc]
  ELSE Bind(ParseStmt(toks, p), LAMBDA r :
         IF Dead(r.p) \/ r.node = NoneNode THEN [p |-> r.p, items |-> acc]
         ELSE ParseStmtsUntil(toks, r.p, Append(acc, r.node), closers))

ParseBlock(toks, p) ==
  Bind(ParseStmtsUntil(toks, ParserNext(toks, p), <<>>, {"RightBrace"}), LAMBDA l :
    IF Dead(l.p) THEN l
    ELSE IF Cur(toks, l.p).k # "RightBrace"
    THEN [p |-> [l.p EXCEPT !.status = "exit0"], items |-> l.items]
    ELSE [p |-> ParserNext(toks, l.p), items |-> l.items])

ParseCaseBlock(toks, p) ==
  ParseStmtsUntil(toks, p, <<>>, {"RightBrace", "Case", "Default"})

RECURSIVE ParseParams(_, _, _)
ParseParams(toks, p, acc) ==
  IF Cur(toks, p).k = "RightParen" THEN [p |-> p, items |-> acc, ok |-> TRUE]
  ELSE IF Cur(toks, p).k = "Identifier"
  THEN LET p1 == ParserNext(toks, p)
       IN ParseParams(toks,
                      IF Cur(toks, p1).k = "Comma" THEN ParserNext(toks, p1) ELSE p1,
                      Append(acc, Cur(toks, p).s))
  ELSE [p |-> LogError(p, "Expect identifier"), items |-> acc, ok |-> FALSE]

ParseFunction(toks, p) ==
  LET p1 == ParserNext(toks, p)
  IN IF Cur(toks, p1).k # "LeftParen"
     THEN NoneAt(LogError(p1, "Expect '(' after function"))
     ELSE Bind(ParseParams(toks, ParserNext(toks, p1), <<>>), LAMBDA ps :
            IF ~ps.ok THEN NoneAt(ps.p)
            ELSE Bind(ParseBlock(toks, ParserNext(toks, ps.p)), LAMBDA body :
                   IF Dead(body.p) THEN NoneAt(body.p)
                   ELSE Some(body.p, FunctionExpr(ps.items, body.items))))

ParseElseIfs(toks, p, acc) ==
  LET p2 == ParserNext(toks, ParserNext(toks, p))
      Stop(q) == [p |-> q, items |-> acc, ok |-> FALSE]
  IN IF Cur(toks, p).k = "Else" /\ PeekNext(toks, p).k = "If"
     THEN IF Cur(toks, p2).k # "LeftParen"
          THEN Stop(LogError(p2, "Expect '(' after if"))
          ELSE Bind(ParseExpr(toks, ParserNext(toks, p2), PrecLowest), LAMBDA c :
                 IF Dead(c.p) THEN Stop(c.p)
                 ELSE IF Cur(toks, c.p).k # "RightParen"
                 THEN Stop(LogError(c.p, "Expect ')' after if condition"))
                 ELSE Bind(ParseBlock(toks, ParserNext(toks, c.p)), LAMBDA b :
                        IF Dead(b.p) THEN Stop(b.p)
                        ELSE IF c.node = NoneNode
                        THEN Stop([b.p EXCEPT !.status = "panic"])
                        ELSE ParseElseIfs(toks, b.p,
                               Append(acc, [condition |-> c.node, block |-> b.items]))))
     ELSE [p |-> p, items |-> acc, ok |-> TRUE]

\* parse_if from the else branch on: the optional else block and the If node
ParseElse(toks, c, then_branch, elseif) ==
  Bind(IF Cur(toks, elseif.p).k = "Else"
       THEN ParseBlock(toks, ParserNext(toks, elseif.p))
       ELSE [p |-> elseif.p, items |-> <<>>], LAMBDA else_branch :
    IF Dead(else_branch.p) THEN NoneAt(else_branch.p)
    ELSE IF c.node = NoneNode THEN Die(else_branch.p, "panic")
    ELSE Some(else_branch.p,
              IfExpr(c.node, elseif.items, then_branch.items, else_branch.items)))

ParseIf(toks, p) ==
  LET p1 == ParserNext(toks, p)
  IN IF Cur(toks, p1).k # "LeftParen" THEN NoneAt(LogError(p1, "Expect '(' after if"))
     ELSE Bind(ParseExpr(toks, ParserNext(toks, p1), PrecLowest), LAMBDA c :
       IF Dead(c.p) THEN NoneAt(c.p)
       ELSE IF Cur(toks, c.p).k # "RightParen"
       THEN NoneAt(LogError(c.p, "Expect ')' after if condition"))
       ELSE Bind(ParseBlock(toks, ParserNext(toks, c.p)), LAMBDA then_branch :
         IF Dead(then_branch.p) THEN NoneAt(then_branch.p)
         ELSE Bind(ParseElseIfs(toks, then_branch.p, <<>>), LAMBDA elseif :
           IF ~elseif.ok THEN NoneAt(elseif.p)
           ELSE ParseElse(toks, c, then_branch, elseif))))

ParseHashPairs(toks, p, acc) ==
  LET Stop(q) == [p |-> q, items |-> acc, ok |-> FALSE]
  IN IF Cur(toks, p).k = "RightBrace" THEN [p |-> p, items |-> acc, ok |-> TRUE]
     ELSE Bind(ParseExpr(toks, p, PrecLowest), LAMBDA key :
       IF Dead(key.p) THEN Stop(key.p)
       ELSE IF key.node = NoneNode THEN Stop([key.p EXCEPT !.status = "panic"])
       ELSE IF Cur(toks, key.p).k # "Colon"
       THEN Stop(LogError(key.p, "Expect ':' after hash key"))
       ELSE Bind(ParseExpr(toks, ParserNext(toks, key.p), PrecLowest), LAMBDA value :
         IF Dead(value.p) THEN Stop(value.p)
         ELSE IF value.node = NoneNode THEN Stop([value.p EXCEPT !.status = "panic"])
         ELSE ParseHashPairs(toks,
                IF Cur(toks, value.p).k = "Comma"
                THEN ParserNext(toks, value.p) ELSE value.p,
                Append(acc, [key |-> key.node, value |-> value.node]))))

ParseHashLiteral(toks, p) ==
  Bind(ParseHashPairs(toks, ParserNext(toks, p), <<>>), LAMBDA l :
    IF ~l.ok THEN NoneAt(l.p) ELSE Some(ParserNext(toks, l.p), LitHash(l.items)))

\* the `this` arm of parse_expr; ret says that parse_expr returns from the arm
ParseThis(toks, p) ==
  LET p1 == ParserNext(toks, p)
      p2 == ParserNext(toks, p1)
      p3 == ParserNext(toks, p2)
  IN IF Cur(toks, p1).k # "Dot"
     THEN [r |-> NoneAt(LogError(p1, "Expect '.' after this")), ret |-> TRUE]
     ELSE IF Cur(toks, p2).k # "Identifier" THEN [r |-> Die(p2, "panic"), ret |-> TRUE]
     ELSE IF Cur(toks, p3).k = "LeftParen"
     THEN Bind(ParseArgsList(toks, ParserNext(toks, p3)), LAMBDA args :
            [r |-> IF Dead(args.p) THEN NoneAt(args.p)
                   ELSE Some(args.p, ThisCall(Cur(toks, p2).s, args.items)),
             ret |-> TRUE])
     ELSE [r |-> Some(p3, ThisExpr(Cur(toks, p2).s)), ret |-> FALSE]

\* the `.` arm of the infix loop of parse_expr
ParseDot(toks, p, left) ==
  LET p1 == ParserNext(toks, p)
      p2 == ParserNext(toks, p1)
  IN IF Cur(toks, p1).k # "Identifier" THEN Die(p1, "panic")
     ELSE IF Cur(toks, p2).k # "LeftParen"
     THEN Some(p2, ClassGet(left.name, Cur(toks, p1).s))
     ELSE Bind(ParseArgsList(toks, ParserNext(toks, p2)), LAMBDA args :
            IF Dead(args.p) THEN NoneAt(args.p)
            ELSE Some(args.p, ClassCall(left.name, Cur(toks, p1).s, args.items)))

ParseInfixLoop(toks, p, left, precedence) ==
  LET c == Cur(toks, p).k
  IN IF c # "Semicolon" /\ precedence < CurrentTokenPrecedence(toks, p)
     THEN IF c = "Dot" /\ left.k # "Ident"
          THEN NoneAt(LogError(p, "Expect identifier before '.'"))
          ELSE IF c \notin InfixTokens \cup {"LeftParen", "LeftBracket", "Dot"}
          THEN Some(p, left)
          ELSE IF left = NoneNode THEN Die(p, "panic")
          ELSE Bind(CASE c \in InfixTokens -> ParseInfixExpr(toks, p, left)
                      [] c = "LeftParen" -> ParseCall(toks, p, left)
                      [] c = "LeftBracket" -> ParseIndexExpr(toks, p, left)
                      [] OTHER -> ParseDot(toks, p, left), LAMBDA r :
                 IF Dead(r.p) THEN r
                 ELSE ParseInfixLoop(toks, r.p, r.node, precedence))
     ELSE Some(p, left)

\* parse_expr up to the infix loop: the prefix match on the current token
ParsePrefix(toks, p) ==
  LET c == Cur(toks, p)
      p1 == ParserNext(toks, p)
      Fall(r) == [r |-> r, ret |-> FALSE]
  IN CASE c.k \in {"Bang", "Plus", "Minus"} -> Fall(ParsePrefixExpr(toks, p))
       [] c.k = "LeftParen" -> Fall(ParseGroupedExpr(toks, p))
       [] c.k = "Number" -> Fall(ParseNumberLiteral(toks, p))
       [] c.k = "Identifier" -> Fall(Some(p1, Ident(c.s)))
       [] c.k = "True" -> Fall(Some(p1, Literal(Boolean(TRUE))))
       [] c.k = "False" -> Fall(Some(p1, Literal(Boolean(FALSE))))
       [] c.k = "String" -> Fall(Some(p1, Literal(String(c.s))))
       [] c.k = "LeftBracket" ->
            Bind(ParseExprList(toks, p1, <<>>, "RightBracket"), LAMBDA array :
              Fall(IF Dead(array.p) THEN NoneAt(array.p)
                   ELSE Some(ParserNext(toks, array.p), LitArray(array.items))))
       [] c.k = "LeftBrace" -> Fall(ParseHashLiteral(toks, p))
       [] c.k = "Nil" -> Fall(Some(p1, Literal(Nil)))
       [] c.k = "New" -> Fall(ParseNewClass(toks, p))
       [] c.k = "This" -> ParseThis(toks, p)
       [] c.k = "If" -> Fall(ParseIf(toks, p))
       [] c.k = "Fun" -> Fall(ParseFunction(toks, p))
       [] c.k = "Print" ->
            Bind(ParseExprList(toks, p1, <<>>, "Semicolon"), LAMBDA print :
              [r |-> IF Dead(print.p) THEN NoneAt(print.p)
                     ELSE Some(print.p, PrintExpr(print.items)),
               ret |-> TRUE])
       [] OTHER -> [r |-> NoneAt(LogError(p, "Expect expression")), ret |-> TRUE]

ParseExpr(toks, p, precedence) ==
  Bind(ParsePrefix(toks, p), LAMBDA pre :
    IF Dead(pre.r.p) \/ pre.ret THEN pre.r
    ELSE ParseInfixLoop(toks, pre.r.p, pre.r.node, precedence))

ParseExprStmt(toks, p) ==
  Bind(ParseExpr(toks, p, PrecLowest), LAMBDA r :
    IF Dead(r.p) \/ r.node = NoneNode THEN NoneAt(r.p)
    ELSE Some(IF Cur(toks, r.p).k = "Semicolon" THEN ParserNext(toks, r.p) ELSE r.p,
              StmtExpr(r.node)))

ParseVarStmt(toks, p) ==
  LET p1 == ParserNext(toks, p)
      p2 == ParserNext(toks, p1)
      name == Cur(toks, p1).s
  IN IF Cur(toks, p1).k # "Identifier" THEN NoneAt(p1)
     ELSE IF Cur(toks, p2).k = "Semicolon"
     THEN Some(ParserNext(toks, p2), StmtVar(name, Literal(Nil)))
     ELSE IF Cur(toks, p2).k = "In" THEN Some(p2, StmtVar(name, Literal(Nil)))
     ELSE Bind(ParseExpr(toks, ParserNext(toks, p2), PrecLowest), LAMBDA r :
            IF Dead(r.p) THEN NoneAt(r.p)
            ELSE IF r.node = NoneNode THEN Die(r.p, "panic")
            ELSE IF Cur(toks, r.p).k # "Semicolon" THEN Die(r.p, "exit0")
            ELSE Some(ParserNext(toks, r.p), StmtVar(name, r.node)))

ParseReturn(toks, p) ==
  Bind(ParseExpr(toks, ParserNext(toks, p), PrecLowest), LAMBDA r :
    IF Dead(r.p) THEN NoneAt(r.p)
    ELSE IF Cur(toks, r.p).k # "Semicolon"
    THEN NoneAt(LogError(r.p, "Expect ';' after return"))
    ELSE IF r.node = NoneNode THEN Die(ParserNext(toks, r.p), "panic")
    ELSE Some(ParserNext(toks, r.p), StmtReturn(r.node)))

ParseImportStmt(toks, p) ==
  LET p1 == ParserNext(toks, p)
      p2 == ParserNext(toks, p1)
  IN IF Cur(toks, p1).k # "String" THEN NoneAt(LogError(p1, "Expect string after import"))
     ELSE IF Cur(toks, p2).k # "Semicolon"
     THEN NoneAt(LogError(p2, "Expect ';' after import"))
     ELSE Some(ParserNext(toks, p2), StmtImport(Cur(toks, p1).s))

ParseWhile(toks, p) ==
  LET p1 == ParserNext(toks, p)
  IN IF Cur(toks, p1).k # "LeftParen" THEN NoneAt(LogError(p1, "Expect '(' after while"))
     ELSE Bind(ParseExpr(toks, ParserNext(toks, p1), PrecLowest), LAMBDA r :
       LET p2 == ParserNext(toks, r.p)
       IN IF Dead(r.p) THEN NoneAt(r.p)
          ELSE IF r.node = NoneNode THEN Die(r.p, "panic")
          ELSE IF Cur(toks, r.p).k # "RightParen"
          THEN NoneAt(LogError(r.p, "Expect ')' after while condition"))
          ELSE IF Cur(toks, p2).k # "LeftBrace"
          THEN NoneAt(LogError(p2, "Expect '{' after while condition"))
          ELSE Bind(ParseBlock(toks, p2), LAMBDA body :
                 IF Dead(body.p) THEN NoneAt(body.p)
                 ELSE Some(body.p, StmtWhile(r.node, body.items))))

ParseClass(toks, p) ==
  LET p1 == ParserNext(toks, p)
      p2 == ParserNext(toks, p1)
  IN IF Cur(toks, p1).k # "Identifier" THEN Die(p1, "panic")
     ELSE IF Cur(toks, p2).k # "LeftBrace"
     THEN NoneAt(LogError(p2, "Expect '{' after class name"))
     ELSE Bind(ParseBlock(toks, p2), LAMBDA properties :
            IF Dead(properties.p) THEN NoneAt(properties.p)
            ELSE Some(properties.p, StmtClass(Cur(toks, p1).s, properties.items)))

\* parse_for_loop after the init statement:  in iter ) { ... }
ParseForIn(toks, init) ==
  Bind(ParseExpr(toks, ParserNext(toks, init.p), PrecLowest), LAMBDA iter :
    IF Dead(iter.p) THEN NoneAt(iter.p)
    ELSE IF iter.node = NoneNode THEN Die(iter.p, "panic")
    ELSE IF Cur(toks, iter.p).k # "RightParen"
    THEN NoneAt(LogError(iter.p, "Expect ')' after for condition"))
    ELSE Bind(ParseBlock(toks, ParserNext(toks, iter.p)), LAMBDA block :
           IF Dead(block.p) THEN NoneAt(block.p)
           ELSE Some(block.p, StmtForIn(init.node, iter.node, block.items))))

\* parse_for_loop after the init statement:  condition ; step ) { ... }
ParseForRest(toks, init) ==
  Bind(ParseExpr(toks, init.p, PrecLowest), LAMBDA condition :
    IF Dead(condition.p) THEN NoneAt(condition.p)
    ELSE IF condition.node = NoneNode THEN Die(condition.p, "panic")
    ELSE IF Cur(toks, condition.p).k # "Semicolon"
    THEN NoneAt(LogError(condition.p, "Expect ';' after for condition"))
    ELSE Bind(ParseExpr(toks, ParserNext(toks, condition.p), PrecLowest), LAMBDA step :
      IF Dead(step.p) THEN NoneAt(step.p)
      ELSE IF step.node = NoneNode THEN Die(step.p, "panic")
      ELSE IF Cur(toks, step.p).k # "RightParen"
      THEN NoneAt(LogError(step.p, "Expect ')' after for condition"))
      ELSE Bind(ParseBlock(toks, ParserNext(toks, step.p)), LAMBDA block :
             IF Dead(block.p) THEN NoneAt(block.p)
             ELSE Some(block.p, StmtFor(init.node, condition.node,
                                        StmtExpr(step.node), block.items)))))

ParseForLoop(toks, p) ==
  LET p1 == ParserNext(toks, p)
      p2 == ParserNext(toks, p1)
  IN IF Cur(toks, p1).k # "LeftParen" THEN NoneAt(LogError(p1, "Expect '(' after for"))
     ELSE IF Cur(toks, p2).k # "Var" THEN NoneAt(LogError(p2, "Expect var after for"))
     ELSE Bind(ParseVarStmt(toks, p2), LAMBDA init :
            IF Dead(init.p) THEN NoneAt(init.p)
            ELSE IF init.node = NoneNode THEN Die(init.p, "panic")
            ELSE IF Cur(toks, init.p).k = "In" THEN ParseForIn(toks, init)
            ELSE ParseForRest(toks, init))

ParseCase(toks, p) ==
  Bind(ParseExpr(toks, ParserNext(toks, p), PrecLowest), LAMBDA left :
    IF Dead(left.p) THEN NoneAt(left.p)
    ELSE IF Cur(toks, left.p).k # "Colon" THEN NoneAt(LogError(left.p, "Expect Colon"))
    ELSE Bind(ParseCaseBlock(toks, ParserNext(toks, left.p)), LAMBDA body :
           IF Dead(body.p) THEN NoneAt(body.p)
           ELSE IF left.node = NoneNode THEN Die(body.p, "panic")
           ELSE Some(body.p, StmtCase(left.node, body.items))))

ParseDefault(toks, p) ==
  LET p1 == ParserNext(toks, p)
  IN IF Cur(toks, p1).k # "Colon" THEN NoneAt(LogError(p1, "Expect Colon"))
     ELSE Bind(ParseCaseBlock(toks, ParserNext(toks, p1)), LAMBDA body :
            IF Dead(body.p) THEN NoneAt(body.p)
            ELSE Some(body.p, StmtDefault(body.items)))

\* while self.current == Token::Case { cases.push(self.parse_case().unwrap()) }
RECURSIVE ParseCases(_, _, _)
ParseCases(toks, p, acc) ==
  IF Cur(toks, p).k = "Case"
  THEN Bind(ParseCase(toks, p), LAMBDA c :
         IF Dead(c.p) THEN [p |-> c.p, items |-> acc]
         ELSE IF c.node = NoneNode
         THEN [p |-> [c.p EXCEPT !.status = "panic"], items |-> acc]
         ELSE ParseCases(toks, c.p, Append(acc, c.node)))
  ELSE [p |-> p, items |-> acc]

\* parse_switch after the cases: the optional default, which is pushed last
ParseSwitchDefault(toks, expr, cases) ==
  Bind(IF Cur(toks, cases.p).k = "Default" THEN ParseDefault(toks, cases.p)
       ELSE NoneAt(cases.p), LAMBDA default :
    IF Dead(default.p) THEN NoneAt(default.p)
    ELSE IF Cur(toks, cases.p).k = "Default" /\ default.node = NoneNode
    THEN Die(default.p, "panic")
    ELSE IF Cur(toks, default.p).k # "RightBrace"
    THEN NoneAt(LogError(default.p, "Expect '}' after switch"))
    ELSE Some(ParserNext(toks, default.p),
              StmtSwitch(expr.node,
                         IF default.node # NoneNode
                         THEN Append(cases.items, default.node)
                         ELSE cases.items)))

ParseSwitch(toks, p) ==
  Bind(ParseExpr(toks, ParserNext(toks, p), PrecLowest), LAMBDA expr :
    IF Dead(expr.p) THEN NoneAt(expr.p)
    ELSE IF expr.node = NoneNode THEN Die(expr.p, "panic")
    ELSE IF Cur(toks, expr.p).k # "LeftBrace"
    THEN NoneAt(LogError(expr.p, "Expect '{' after switch"))
    ELSE Bind(ParseCases(toks, ParserNext(toks, expr.p), <<>>), LAMBDA cases :
           IF Dead(cases.p) THEN NoneAt(cases.p)
           ELSE ParseSwitchDefault(toks, expr, cases)))

ParseAssertExpr(toks, p) ==
  Bind(ParseExpr(toks, ParserNext(toks, p), PrecLowest), LAMBDA expr :
    LET p1 == ParserNext(toks, expr.p)
        p2 == ParserNext(toks, p1)
        Done(q, message) ==
          IF expr.node = NoneNode THEN Die(q, "panic")
          ELSE Some(q, StmtAssert(expr.node, Literal(String(message))))
    IN IF Dead(expr.p) THEN NoneAt(expr.p)
       ELSE IF Cur(toks, expr.p).k = "Comma"
       THEN IF Cur(toks, p1).k = "String"
            THEN IF Cur(toks, p2).k # "Semicolon"
                 THEN NoneAt(LogError(p2, "Expect ';' after assert message"))
                 ELSE Done(ParserNext(toks, p2), Cur(toks, p1).s)
            ELSE Done(ParserNext(toks, p1), "")
       ELSE IF Cur(toks, expr.p).k # "Semicolon"
       THEN NoneAt(LogError(expr.p, "Expect ';' after assert"))
       ELSE Done(p1, ""))

\* the `fun` arm of parse_stmt
ParseFunctionStmt(toks, p) ==
  LET p1 == ParserNext(toks, p)
  IN IF Cur(toks, p1).k # "Identifier" THEN Die(p1, "panic")
     ELSE Bind(ParseFunction(toks, p1), LAMBDA f :
            IF Dead(f.p) \/ f.node = NoneNode THEN NoneAt(f.p)
            ELSE Some(f.p, StmtFunction(Cur(toks, p1).s, f.node.params, f.node.body)))

\* the `{` arm of parse_stmt
ParseBlockStmt(toks, p) ==
  Bind(ParseStmtsUntil(toks, ParserNext(toks, p), <<>>, {"RightBrace"}), LAMBDA l :
    IF Dead(l.p) THEN NoneAt(l.p)
    ELSE IF Cur(toks, l.p).k # "RightBrace" THEN Die(l.p, "exit65")
    ELSE Some(ParserNext(toks, l.p), StmtBlock(l.items)))

ParseStmt(toks, p) ==
  LET c == Cur(toks, p).k
  IN CASE c = "Eof" -> NoneAt(p)
       [] c = "Fun" -> ParseFunctionStmt(toks, p)
       [] c = "Import" -> ParseImportStmt(toks, p)
       [] c = "Return" -> ParseReturn(toks, p)
       [] c = "Var" -> ParseVarStmt(toks, p)
       [] c = "Switch" -> ParseSwitch(toks, p)
       [] c = "While" -> ParseWhile(toks, p)
       [] c = "Class" -> ParseClass(toks, p)
       [] c = "For" -> ParseForLoop(toks, p)
       [] c = "Assert" -> ParseAssertExpr(toks, p)
       [] c = "LeftBrace" -> ParseBlockStmt(toks, p)
       [] OTHER -> ParseExprStmt(toks, p)

\* Parser::parse: the program, with the parser state it ends in
Parse(toks) == ParseStmtsUntil(toks, ParserNew, <<>>, {"Eof"})

(***************************************************************************)
(* evaluator.rs: Evaluator.  The evaluator state st is                      *)
(*   [envs, cur, heap, out, status, output, fuel]:                          *)
(* envs are the environment nodes and cur the cursor self.envs; heap holds  *)
(* the shared cells (the maps behind Rc<RefCell<..>>) as sequences of       *)
(* [key, value] pairs in insertion order; out are the values written by     *)
(* print! and println!; status is "ok" until the process ends by exit(70)   *)
(* ("exit70") or a panic ("panic"); output is Evaluator.output.  fuel       *)
(* bounds the loop iterations and calls of one statement ("fuel" when it    *)
(* runs out); "unmodelled" marks syntax outside the modelled subset.        *)
(* A result is [st, v], v an Object or None (Option<Object>).               *)
(***************************************************************************)
MaxFuel == 6

BuiltinNames ==
  {"print", "len", "start_with", "println", "substr", "typeis", "append", "intval",
   "is_str", "is_number", "strval", "trim", "type"}

Builtin(name) == [t |-> "Builtin", name |-> name]

E(st, v) == [st |-> st, v |-> v]

Fail(st, how) == [st |-> [st EXCEPT !.status = how], v |-> None]

\* Option::unwrap on the result of a step
Unwrap(r) == IF r.st.status = "ok" /\ r.v = None THEN Fail(r.st, "panic") ELSE r

\* sequencing: K continues with the result r unless the process has ended
Then(r, K(_)) == IF r.st.status # "ok" THEN E(r.st, None) ELSE K(r)

\* the environment cursor: a child environment, and self.envs = current_env
EnterEnv(st) ==
  [st EXCEPT !.envs = Append(st.envs, NewWithOuter(st.cur)), !.cur = Len(st.envs) + 1]

\* for comparison: the cursor left where the callee, block or loop put it
LeaveEnv(st, current_env) == st

RestoreEnv(st, current_env) ==
  [st EXCEPT !.envs = SubSeq(st.envs, 1, current_env), !.cur = current_env]

\* history: unbalanced records that some evaluate_stmt or evaluate_expr that
\* began with self.envs at the node st.cur returned with it at another node
Returned(st, r) ==
  IF r.st.status = "ok" /\ r.st.cur # st.cur THEN E([r.st EXCEPT !.unbalanced = TRUE], r.v)
  ELSE r

\* HashMap::get and HashMap::insert on a cell
RECURSIVE PairsGet(_, _, _)
PairsGet(pairs, i, key) ==
  IF i > Len(pairs) THEN None
  ELSE IF pairs[i].key = key THEN pairs[i].value
  ELSE PairsGet(pairs, i + 1, key)

PairsInsert(pairs, key, value) ==
  IF \E i \in 1..Len(pairs) : pairs[i].key = key
  THEN [i \in 1..Len(pairs) |->
          IF pairs[i].key = key THEN [key |-> pairs[i].key, value |-> value]
          ELSE pairs[i]]
  ELSE Append(pairs, [key |-> key, value |-> value])

\* Rc::new(RefCell::new(map)): a new cell, and its reference
Alloc(st, pairs) == [st EXCEPT !.heap = Append(st.heap, pairs)]

\* for comparison: an insert into a clone of the map, which no reference sees
CellInsertCopy(st, ref, key, value) ==
  Alloc(st, PairsInsert(st.heap[ref], key, value))

CellInsert(st, ref, key, value) ==
  [st EXCEPT !.heap[ref] = PairsInsert(st.heap[ref], key, value)]

\* the derived PartialEq of Object: Rc compares the maps it points to
PairSet(pairs) == {pairs[i] : i \in 1..Len(pairs)}

ObjEq(cells, a, b) ==
  IF a.t = "Hash" /\ b.t = "Hash" THEN PairSet(cells[a.ref]) = PairSet(cells[b.ref])
  ELSE IF a.t = "ClassInstance" /\ b.t = "ClassInstance"
  THEN /\ a.name = b.name
       /\ a.properties = b.properties
       /\ PairSet(cells[a.fields]) = PairSet(cells[b.fields])
  ELSE a = b

\* the arithmetic and comparison arms of the infix match (left and right are
\* Option<Object>; both were evaluated before the match)
EvalInfixOp(st, op, left, right) ==
  LET bothNumbers == left.t = "Number" /\ right.t = "Number"
      bothBooleans == left.t = "Boolean" /\ right.t = "Boolean"
      sameScalar == left.t = right.t /\ left.t \in {"Number", "Boolean", "String", "Nil"}
      needsRight == IF op \in {"EqualEqual", "BangEqual"}
                    THEN left.t \in {"Number", "Boolean", "String"}
                         \/ (op = "EqualEqual" /\ left.t = "Nil")
                    ELSE IF op = "Plus" THEN left.t \in {"Number", "String"}
                    ELSE IF op \in {"And", "Or"} THEN left.t = "Boolean"
                    ELSE left.t = "Number"
  IN IF op \notin {"EqualEqual", "BangEqual", "Less", "LessEqual", "Greater",
                   "GreaterEqual", "Star", "Minus", "Plus", "And", "Or", "Slash"}
     THEN Fail(st, "panic")
     ELSE IF left = None THEN Fail(st, "panic")
     ELSE IF needsRight /\ right = None THEN Fail(st, "panic")
     ELSE CASE op = "EqualEqual" ->
                 E(st, Boolean(IF sameScalar THEN left = right ELSE FALSE))
            [] op = "BangEqual" ->
                 E(st, Boolean(IF sameScalar /\ left.t # "Nil" THEN left # right ELSE FALSE))
            [] op = "Plus" ->
                 IF bothNumbers THEN E(st, Number(left.n + right.n))
                 ELSE IF left.t = "String" /\ right.t = "String"
                 THEN E(st, String(left.s \o right.s))
                 ELSE Fail(st, "panic")
            [] op \in {"And", "Or"} ->
                 IF bothBooleans
                 THEN E(st, Boolean(IF op = "And" THEN left.b /\ right.b
                                    ELSE left.b \/ right.b))
                 ELSE Fail(st, "exit70")
            [] op = "Slash" -> Fail(st, IF bothNumbers THEN "unmodelled" ELSE "exit70")
            [] OTHER ->
                 IF ~bothNumbers THEN Fail(st, "exit70")
                 ELSE CASE op = "Less" -> E(st, Boolean(left.n < right.n))
                        [] op = "LessEqual" -> E(st, Boolean(left.n <= right.n))
                        [] op = "Greater" -> E(st, Boolean(left.n > right.n))
                        [] op = "GreaterEqual" -> E(st, Boolean(left.n >= right.n))
                        [] op = "Star" -> E(st, Number(left.n * right.n))
                        [] OTHER -> E(st, Number(left.n - right.n))

\* the prefix operators applied to the unwrapped operand
EvalPrefixOp(st, op, expr) ==
  LET Falsy(v) ==
        CASE v.t = "Boolean" -> E(st, Boolean(~v.b))
          [] v.t = "Nil" -> E(st, Boolean(TRUE))
          [] v.t = "Number" -> E(st, Boolean(v.n = 0))
          [] v.t = "String" -> E(st, Boolean(v.s = ""))
          [] OTHER -> E(st, None)
  IN CASE op = "Minus" ->
            IF expr.t = "Number" THEN E(st, Number(0 - expr.n)) ELSE Fail(st, "exit70")
       [] op = "Bang" ->
            IF expr.t = "ReturnValue"
            THEN IF expr.obj.t \in {"Boolean", "Nil", "Number", "String"}
                 THEN Falsy(expr.obj) ELSE Fail(st, "panic")
            ELSE Falsy(expr)
       [] OTHER -> Fail(st, "panic")

EvalIndexExpr(st, left, index) ==
  CASE left.t = "Hash" ->
         LET value == PairsGet(st.heap[left.ref], 1, index)
         IN E(st, IF value # None THEN value ELSE Nil)
    [] left.t \in {"Array", "String"} -> Fail(st, "unmodelled")
    [] OTHER -> Fail(st, "panic")

\* hash.borrow() is held by a for-in loop over the cell
Borrowed(st, ref) == \E i \in 1..Len(st.borrowed) : st.borrowed[i] = ref

\* one more call or loop iteration of the statement being evaluated
Tick(st) == [st EXCEPT !.fuel = st.fuel - 1]

EnvSetIn(st, name, value) ==
  [st EXCEPT !.envs = EnvSet(st.envs, st.cur, name, value)]

EnvSetStoreIn(st, name, value) ==
  [st EXCEPT !.envs = EnvSetStore(st.envs, st.cur, name, value)]

RECURSIVE EvaluateExpr(_, _), EvaluateStmt(_, _), EvalStmts(_, _, _, _),
          EvalHashPairs(_, _, _, _), EvalPrintArgs(_, _, _), EvalElseIfs(_, _, _),
          EvalParams(_, _, _, _, _), EvalCallArgs(_, _, _, _, _),
          EvalClassMembers(_, _, _, _, _), EvalCases(_, _, _, _),
          EvalWhile(_, _, _), EvalForLoop(_, _), EvalForInKeys(_, _, _, _, _)

\* the statement loops  for stmt in stmts { ... }  of the evaluator.  how is
\*   "stmts":  a result that is Some ends the loop and is the result;
\*   "block":  as "stmts", and a Stmt::Return yields its value directly;
\*   "branch": as "stmts", and a Stmt::Return yields Object::ReturnValue;
\*   "ignore": every statement runs and the results are dropped.
\* The result is None when the loop ran to its end.
EvalStmts(st, stmts, i, how) ==
  IF i > Len(stmts) THEN E(st, None)
  ELSE IF stmts[i].k = "Return" /\ how \in {"block", "branch"}
  THEN Then(Unwrap(EvaluateExpr(st, stmts[i].expr)), LAMBDA object :
         E(object.st, IF how = "branch" THEN ReturnValue(object.v) ELSE object.v))
  ELSE Then(EvaluateStmt(st, stmts[i]), LAMBDA result :
         IF result.v # None /\ how # "ignore" THEN result
         ELSE EvalStmts(result.st, stmts, i + 1, how))

\* Literal::Hash
EvalHashPairs(st, pairs, i, hash_map) ==
  IF i > Len(pairs) THEN E(Alloc(st, hash_map), Hash(Len(st.heap) + 1))
  ELSE Then(Unwrap(EvaluateExpr(st, pairs[i].key)), LAMBDA key :
       Then(Unwrap(EvaluateExpr(key.st, pairs[i].value)), LAMBDA value :
         IF key.v.t \in {"Hash", "ClassInstance"} THEN Fail(value.st, "unmodelled")
         ELSE EvalHashPairs(value.st, pairs, i + 1,
                            PairsInsert(hash_map, key.v, value.v))))

EvalIdent(st, name) ==
  IF name \in BuiltinNames THEN E(st, Builtin(name))
  ELSE Bind(EnvGet(st.envs, st.cur, name), LAMBDA env :
         IF env # None THEN E(st, env) ELSE Fail(st, "exit70"))

\* left and right are both evaluated, then the operator is matched
EvalBinary(st, left, op, right) ==
  Then(EvaluateExpr(st, left), LAMBDA l :
  Then(EvaluateExpr(l.st, right), LAMBDA r :
    EvalInfixOp(r.st, op, l.v, r.v)))

\* InfixExpr with Token::Equal
EvalAssign(st, left, right) ==
  CASE left.k = "Ident" ->
         Then(Unwrap(EvaluateExpr(st, right)), LAMBDA object :
           E(EnvSetIn(object.st, left.name, object.v), object.v))
    [] left.k = "IndexExpr" /\ left.left.k = "Ident" ->
         Bind(EnvGet(st.envs, st.cur, left.left.name), LAMBDA hash :
           IF hash = None THEN Fail(st, "panic")
           ELSE IF hash.t # "Hash" THEN EvalBinary(st, left, "Equal", right)
           ELSE Then(Unwrap(EvaluateExpr(st, left.index)), LAMBDA index :
                Then(Unwrap(EvaluateExpr(index.st, right)), LAMBDA object :
                  IF index.v.t \in {"Hash", "ClassInstance"}
                  THEN Fail(object.st, "unmodelled")
                  ELSE IF Borrowed(object.st, hash.ref) THEN Fail(object.st, "panic")
                  ELSE E(EnvSetIn(CellInsert(object.st, hash.ref, index.v, object.v),
                                  left.left.name, hash),
                         object.v))))
    [] left.k = "ThisExpr" ->
         Bind(GetCurrentClass(st.envs, st.cur), LAMBDA class :
           IF class = None THEN Fail(st, "panic")
           ELSE IF class.t # "ClassInstance" THEN E(st, class)
           ELSE Then(Unwrap(EvaluateExpr(st, right)), LAMBDA object :
                  E(CellInsert(object.st, class.fields, left.name, object.v), object.v)))
    [] OTHER -> EvalBinary(st, left, "Equal", right)

\* InfixExpr with MinusSelf, PlusSelf, StarSelf, SlashSelf or ModSelf
EvalSelfAssign(st, left, op, right) ==
  IF left.k # "Ident" THEN E(st, Nil)
  ELSE Then(Unwrap(EvaluateExpr(st, right)), LAMBDA object :
         Bind(EnvGet(object.st.envs, object.st.cur, left.name), LAMBDA old :
           IF object.v.t # "Number" \/ old.t # "Number" THEN Fail(object.st, "panic")
           ELSE IF op \in {"SlashSelf", "ModSelf"} THEN Fail(object.st, "unmodelled")
           ELSE Bind(Number(CASE op = "MinusSelf" -> old.n - object.v.n
                              [] op = "PlusSelf" -> old.n + object.v.n
                              [] OTHER -> old.n * object.v.n), LAMBDA new :
                  E(EnvSetIn(object.st, left.name, new), new))))

EvalInfix(st, left, op, right) ==
  IF op = "Equal" THEN EvalAssign(st, left, right)
  ELSE IF op \in {"MinusSelf", "PlusSelf", "StarSelf", "SlashSelf", "ModSelf"}
  THEN EvalSelfAssign(st, left, op, right)
  ELSE EvalBinary(st, left, op, right)

\* PrintExpr: print! of every argument in order
EvalPrintArgs(st, exprs, i) ==
  IF i > Len(exprs) THEN E(st, Nil)
  ELSE Then(Unwrap(EvaluateExpr(st, exprs[i])), LAMBDA object :
         EvalPrintArgs([object.st EXCEPT !.out = Append(object.st.out, object.v)],
                       exprs, i + 1))

\* ExprType::If, from the else-if list on
EvalElseIfs(st, node, i) ==
  IF i > Len(node.elseif) THEN EvalStmts(st, node.else_branch, 1, "branch")
  ELSE Then(Unwrap(EvaluateExpr(st, node.elseif[i].condition)), LAMBDA cond :
         IF cond.v.t = "Boolean" /\ cond.v.b
         THEN EvalStmts(cond.st, node.elseif[i].block, 1, "branch")
         ELSE EvalElseIfs(cond.st, node, i + 1))

EvalIf(st, node) ==
  Then(Unwrap(EvaluateExpr(st, node.condition)), LAMBDA condition :
    IF condition.v.t # "Boolean" THEN E(condition.st, Nil)
    ELSE Then(IF condition.v.b
              THEN EvalStmts(condition.st, node.then_branch, 1, "branch")
              ELSE EvalElseIfs(condition.st, node, 1), LAMBDA result :
           IF result.v # None THEN result ELSE E(result.st, Nil)))

\* Call of a Function: every argument is evaluated in the new environment
\* into values, and the values are then stored
EvalCallArgs(st, params, args, i, values) ==
  IF i > Len(params)
  THEN E([st EXCEPT !.envs[st.cur].store = values @@ st.envs[st.cur].store], None)
  ELSE IF i > Len(args) THEN Fail(st, "panic")
  ELSE Then(Unwrap(EvaluateExpr(st, args[i])), LAMBDA arg :
         EvalCallArgs(arg.st, params, args, i + 1, (params[i] :> arg.v) @@ values))

EvalCall(st, node) ==
  Then(EvaluateExpr(st, node.callee), LAMBDA callee :
    CASE callee.v.t = "Builtin" -> Fail(callee.st, "unmodelled")
      [] callee.v.t = "Function" ->
           IF callee.st.fuel = 0 THEN Fail(callee.st, "fuel")
           ELSE Then(EvalCallArgs(EnterEnv(Tick(callee.st)), callee.v.params,
                                  node.args, 1, EmptyMap), LAMBDA bound :
                Then(EvalStmts(bound.st, callee.v.body, 1, "stmts"), LAMBDA block_result :
                  E(RestoreEnv(block_result.st, callee.st.cur), block_result.v)))
      [] OTHER -> Fail(callee.st, "panic"))

\* the parameter loops of ThisCall ("this": over the parameters, set_store),
\* ClassCall ("class": over the arguments, set_store) and ClassInit ("init":
\* over the arguments, set)
EvalParams(st, params, args, i, how) ==
  IF i > (IF how = "this" THEN Len(params) ELSE Len(args)) THEN E(st, None)
  ELSE IF i > Len(args) THEN Fail(st, "panic")
  ELSE Then(Unwrap(EvaluateExpr(st, args[i])), LAMBDA arg :
         IF i > Len(params) THEN Fail(arg.st, "panic")
         ELSE EvalParams(IF how = "init" THEN EnvSetIn(arg.st, params[i], arg.v)
                         ELSE EnvSetStoreIn(arg.st, params[i], arg.v),
                         params, args, i + 1, how))

EvalThisCall(st, node) ==
  Bind(GetCurrentClass(st.envs, st.cur), LAMBDA class :
    IF class = None THEN Fail(st, "panic")
    ELSE IF class.t # "ClassInstance" THEN E(st, None)
    ELSE IF node.method \notin DOMAIN class.properties THEN Fail(st, "panic")
    ELSE IF st.fuel = 0 THEN Fail(st, "fuel")
    ELSE Then(EvalParams(EnterEnv(Tick(st)), class.properties[node.method].params,
                         node.args, 1, "this"), LAMBDA bound :
         Then(EvalStmts(bound.st, class.properties[node.method].body, 1, "stmts"),
              LAMBDA result : E(RestoreEnv(result.st, st.cur), result.v))))

\* ClassInit: the fields and the methods of the class body
EvalClassMembers(st, properties, i, fields, props) ==
  IF i > Len(properties) THEN E(st, [fields |-> fields, props |-> props])
  ELSE CASE properties[i].k = "Var" ->
              Then(Unwrap(EvaluateExpr(st, properties[i].expr)), LAMBDA object :
                EvalClassMembers(object.st, properties, i + 1,
                                 PairsInsert(fields, properties[i].name, object.v), props))
         [] properties[i].k = "Function" ->
              EvalClassMembers(st, properties, i + 1, fields,
                               (properties[i].name :>
                                  Function(properties[i].params, properties[i].body))
                               @@ props)
         [] OTHER -> Fail(st, "panic")

RECURSIVE SetParamsNil(_, _, _)
SetParamsNil(st, params, i) ==
  IF i > Len(params) THEN st
  ELSE SetParamsNil(EnvSetIn(st, params[i], Nil), params, i + 1)

\* ClassInit from the call of init on: the instance owns the cell fields
EvalInit(st0, st, init_func, args, instance) ==
  Then(EvalParams(EnterEnv(Tick(st)), init_func.params, args, 1, "init"), LAMBDA bound :
  Then(EvalStmts([bound.st EXCEPT !.envs =
                    SetCurrentClass(
                      IF Len(args) = 0
                      THEN SetParamsNil(bound.st, init_func.params, 1).envs
                      ELSE bound.st.envs,
                      bound.st.cur, instance)],
                 init_func.body, 1, "ignore"), LAMBDA done :
    E(RestoreEnv(done.st, st0.cur), instance)))

EvalClassInit(st, node) ==
  Bind(EnvGet(st.envs, st.cur, node.name), LAMBDA class :
    IF class = None THEN Fail(st, "panic")
    ELSE IF class.t # "Class" THEN E(st, Nil)
    ELSE Then(EvalClassMembers(st, class.properties, 1, <<>>, EmptyMap), LAMBDA m :
           Bind(ClassInstance(node.name, Len(m.st.heap) + 1, m.v.props), LAMBDA instance :
             IF "init" \notin DOMAIN m.v.props THEN E(Alloc(m.st, m.v.fields), instance)
             ELSE IF m.st.fuel = 0 THEN Fail(m.st, "fuel")
             ELSE EvalInit(st, Alloc(m.st, m.v.fields), m.v.props["init"],
                           node.args, instance))))

EvalClassCall(st, node) ==
  Bind(EnvGet(st.envs, st.cur, node.callee), LAMBDA class :
    IF class = None THEN Fail(st, "panic")
    ELSE IF class.t # "ClassInstance" THEN E(st, Nil)
    ELSE IF node.method \notin DOMAIN class.properties THEN Fail(st, "panic")
    ELSE IF st.fuel = 0 THEN Fail(st, "fuel")
    ELSE Then(EvalParams([EnterEnv(Tick(st)) EXCEPT !.envs =
                            SetCurrentClass(EnterEnv(st).envs, EnterEnv(st).cur, class)],
                         class.properties[node.method].params, node.args, 1, "class"),
              LAMBDA bound :
         Then(EvalStmts(bound.st, class.properties[node.method].body, 1, "stmts"),
              LAMBDA result :
           E([RestoreEnv(result.st, st.cur) EXCEPT !.envs =
                ResetCurrentClass(RestoreEnv(result.st, st.cur).envs, st.cur)],
             IF result.v # None THEN result.v ELSE Nil))))

EvalThisExpr(st, node) ==
  Bind(GetCurrentClass(st.envs, st.cur), LAMBDA object :
    IF object = None THEN Fail(st, "panic")
    ELSE IF object.t # "ClassInstance" THEN E(st, Nil)
    ELSE Bind(PairsGet(st.heap[object.fields], 1, node.name), LAMBDA field :
           E(st, IF field # None THEN field ELSE Nil)))

EvalClassGet(st, node) ==
  Bind(EnvGet(st.envs, st.cur, node.callee), LAMBDA class :
    IF class = None THEN Fail(st, "panic")
    ELSE IF class.t # "ClassInstance" THEN E(st, class)
    ELSE Bind(PairsGet(st.heap[class.fields], 1, node.prop), LAMBDA field :
           E(st, IF field # None THEN field ELSE Nil)))

EvaluateExpr(st, expr) ==
  Bind(
    CASE expr.k = "Literal" -> E(st, expr.lit)
      [] expr.k = "LitArray" -> Fail(st, "unmodelled")
      [] expr.k = "LitHash" -> EvalHashPairs(st, expr.pairs, 1, <<>>)
      [] expr.k = "Ident" -> EvalIdent(st, expr.name)
      [] expr.k = "GroupingExpr" -> EvaluateExpr(st, expr.expr)
      [] expr.k = "PrefixExpr" ->
           Then(Unwrap(EvaluateExpr(st, expr.expr)), LAMBDA e :
             EvalPrefixOp(e.st, expr.op, e.v))
      [] expr.k = "InfixExpr" -> EvalInfix(st, expr.left, expr.op, expr.right)
      [] expr.k = "PrintExpr" -> EvalPrintArgs(st, expr.exprs, 1)
      [] expr.k = "If" -> EvalIf(st, expr)
      [] expr.k = "FunctionExpr" -> E(st, Function(expr.params, expr.body))
      [] expr.k = "ThisCall" -> EvalThisCall(st, expr)
      [] expr.k = "Call" -> EvalCall(st, expr)
      [] expr.k = "ClassInit" -> EvalClassInit(st, expr)
      [] expr.k = "ClassCall" -> EvalClassCall(st, expr)
      [] expr.k = "ThisExpr" -> EvalThisExpr(st, expr)
      [] expr.k = "ClassGet" -> EvalClassGet(st, expr)
      [] expr.k = "IndexExpr" ->
           Then(Unwrap(EvaluateExpr(st, expr.left)), LAMBDA left :
           Then(Unwrap(EvaluateExpr(left.st, expr.index)), LAMBDA index :
             EvalIndexExpr(index.st, left.v, index.v)))
      [] OTHER -> E(st, Nil),
    LAMBDA r : Returned(st, r))

\* for comparison: Stmt::Switch without the break after the block of the
\* matching case
EvalCasesNoBreak(st, result, cases, i) ==
  IF i > Len(cases) THEN E(st, None)
  ELSE CASE cases[i].k = "Case" ->
              Then(Unwrap(EvaluateExpr(st, cases[i].expr)), LAMBDA case :
                IF ObjEq(case.st.heap, case.v, result)
                THEN Then(EvalStmts(case.st, cases[i].block, 1, "stmts"), LAMBDA r :
                       IF r.v # None THEN r ELSE EvalCases(r.st, result, cases, i + 1))
                ELSE EvalCases(case.st, result, cases, i + 1))
         [] cases[i].k = "Default" ->
              Then(EvalStmts(st, cases[i].block, 1, "stmts"), LAMBDA r :
                IF r.v # None THEN r ELSE EvalCases(r.st, result, cases, i + 1))
         [] OTHER -> Fail(st, "panic")

\* Stmt::Switch: the cases in order, result the value of the discriminant
EvalCases(st, result, cases, i) ==
  IF i > Len(cases) THEN E(st, None)
  ELSE CASE cases[i].k = "Case" ->
              Then(Unwrap(EvaluateExpr(st, cases[i].expr)), LAMBDA case :
                IF ObjEq(case.st.heap, case.v, result)
                THEN EvalStmts(case.st, cases[i].block, 1, "stmts")
                ELSE EvalCases(case.st, result, cases, i + 1))
         [] cases[i].k = "Default" ->
              Then(EvalStmts(st, cases[i].block, 1, "stmts"), LAMBDA r :
                IF r.v # None THEN r ELSE EvalCases(r.st, result, cases, i + 1))
         [] OTHER -> Fail(st, "panic")

\* Stmt::While inside its environment: a condition that is not a Boolean is
\* evaluated again
EvalWhile(st, expr, block) ==
  IF st.fuel = 0 THEN Fail(st, "fuel")
  ELSE Then(Unwrap(EvaluateExpr(Tick(st), expr)), LAMBDA result :
         IF result.v.t # "Boolean" THEN EvalWhile(result.st, expr, block)
         ELSE IF ~result.v.b THEN E(result.st, None)
         ELSE Then(EvalStmts(result.st, block, 1, "stmts"), LAMBDA r :
                IF r.v # None THEN r ELSE EvalWhile(r.st, expr, block)))

\* evaluate_for after the init statement
EvalForLoop(st, stmt) ==
  IF st.fuel = 0 THEN Fail(st, "fuel")
  ELSE Then(Unwrap(EvaluateExpr(Tick(st), stmt.conditions)), LAMBDA result :
         IF result.v.t # "Boolean" THEN EvalForLoop(result.st, stmt)
         ELSE IF ~result.v.b THEN E(result.st, None)
         ELSE Then(EvalStmts(EnterEnv(result.st), stmt.block, 1, "ignore"), LAMBDA body :
              Then(EvaluateStmt(RestoreEnv(body.st, result.st.cur), stmt.step), LAMBDA s :
                EvalForLoop(s.st, stmt))))

EvaluateFor(st, stmt) ==
  Then(EvaluateStmt(st, stmt.init), LAMBDA init :
  Then(EvalForLoop(init.st, stmt), LAMBDA done : E(done.st, None)))

\* Stmt::ForIn over the keys of the map, in the order the map hands them out
EvalForInKeys(st, name, keys, i, block) ==
  IF i > Len(keys) THEN E(st, None)
  ELSE IF st.fuel = 0 THEN Fail(st, "fuel")
  ELSE Then(EvalStmts(EnvSetIn(EnterEnv(Tick(st)), name, keys[i]), block, 1, "stmts"),
            LAMBDA result :
         IF result.v # None THEN E(RestoreEnv(result.st, st.cur), result.v)
         ELSE EvalForInKeys(RestoreEnv(result.st, st.cur), name, keys, i + 1, block))

\* HashMap::iter: the order is not specified; the map hands out its keys in
\* insertion order or in the reverse of it
IterKeys(st, ref) ==
  LET pairs == st.heap[ref]
      n == Len(pairs)
  IN [i \in 1..n |-> IF st.reverse THEN pairs[n + 1 - i].key ELSE pairs[i].key]

EvalForIn(st, stmt) ==
  Then(Unwrap(EvaluateExpr(st, stmt.iter)), LAMBDA iter :
    IF stmt.var.k # "Var" THEN Fail(iter.st, "panic")
    ELSE IF iter.v.t # "Hash" THEN E(iter.st, None)
    ELSE IF Len(iter.st.heap[iter.v.ref]) > 2 THEN Fail(iter.st, "unmodelled")
    ELSE Then(EvalForInKeys([iter.st EXCEPT !.borrowed = Append(iter.st.borrowed, iter.v.ref)],
                            stmt.var.name, IterKeys(iter.st, iter.v.ref), 1, stmt.block),
              LAMBDA result :
           E([result.st EXCEPT !.borrowed = iter.st.borrowed], result.v)))

EvaluateStmt(st, stmt) ==
  Bind(
    CASE stmt.k = "Var" ->
           Then(Unwrap(EvaluateExpr(st, stmt.expr)), LAMBDA object :
             E(EnvSetStoreIn(object.st, stmt.name, object.v), None))
      [] stmt.k = "Expr" ->
           Then(EvaluateExpr(st, stmt.expr), LAMBDA object :
             E(object.st, IF object.v.t = "ReturnValue" THEN object.v.obj ELSE None))
      [] stmt.k = "Block" ->
           Then(EvalStmts(EnterEnv(st), stmt.stmts, 1, "block"), LAMBDA result :
             E(RestoreEnv(result.st, st.cur), result.v))
      [] stmt.k = "Return" ->
           Then(Unwrap(EvaluateExpr(st, stmt.expr)), LAMBDA object :
             E(IF object.st.output
               THEN [object.st EXCEPT !.out = Append(object.st.out, object.v)]
               ELSE object.st, object.v))
      [] stmt.k = "Function" ->
           E(EnvSetStoreIn(st, stmt.name, Function(stmt.params, stmt.body)), None)
      [] stmt.k = "Switch" ->
           Then(Unwrap(EvaluateExpr(st, stmt.expr)), LAMBDA result :
             EvalCases(result.st, result.v, stmt.cases, 1))
      [] stmt.k = "While" ->
           Then(EvalWhile(EnterEnv(st), stmt.expr, stmt.block), LAMBDA result :
             E(RestoreEnv(result.st, st.cur), result.v))
      [] stmt.k = "ClassStmt" ->
           E(EnvSetIn(st, stmt.name, Class(stmt.name, stmt.properties)), None)
      [] stmt.k = "For" -> EvaluateFor(st, stmt)
      [] stmt.k = "ForIn" -> EvalForIn(st, stmt)
      [] stmt.k = "Import" -> E(st, None)
      [] stmt.k = "Assert" ->
           Then(Unwrap(EvaluateExpr(st, stmt.condition)), LAMBDA result :
             IF result.v.t = "Boolean" /\ ~result.v.b THEN Fail(result.st, "exit70")
             ELSE E(result.st, None))
      [] OTHER -> Fail(st, "panic"),
    LAMBDA r : Returned(st, r))

(***************************************************************************)
(* builtins.rs: Builtins.  The registry is [builtins, sorted, indexs]: the  *)
(* map from a name to its Builtin object, the map from a name to its index  *)
(* and the names by index (indices count from 0 as in the code).  The keys  *)
(* of the HashMap come in some order of iteration and are sorted before the *)
(* indices are given out; String is ordered by its bytes.                   *)
(***************************************************************************)
\* new_builtins: the names in the order of their insertion
NewBuiltins ==
  <<"print", "len", "start_with", "println", "substr", "typeis", "append", "intval",
    "is_str", "is_number", "strval", "trim", "type">>

\* the bytes of a registered name
Bytes(name) ==
  CASE name = "print" -> <<112, 114, 105, 110, 116>>
    [] name = "len" -> <<108, 101, 110>>
    [] name = "start_with" -> <<115, 116, 97, 114, 116, 95, 119, 105, 116, 104>>
    [] name = "println" -> <<112, 114, 105, 110, 116, 108, 110>>
    [] name = "substr" -> <<115, 117, 98, 115, 116, 114>>
    [] name = "typeis" -> <<116, 121, 112, 101, 105, 115>>
    [] name = "append" -> <<97, 112, 112, 101, 110, 100>>
    [] name = "intval" -> <<105, 110, 116, 118, 97, 108>>
    [] name = "is_str" -> <<105, 115, 95, 115, 116, 114>>
    [] name = "is_number" -> <<105, 115, 95, 110, 117, 109, 98, 101, 114>>
    [] name = "strval" -> <<115, 116, 114, 118, 97, 108>>
    [] name = "trim" -> <<116, 114, 105, 109>>
    [] name = "type" -> <<116, 121, 112, 101>>
    [] OTHER -> <<>>

RECURSIVE BytesLess(_, _, _)
\* a < b as slices of bytes, from position i on: the first byte that differs
\* decides, and a proper prefix is the smaller one
BytesLess(a, b, i) ==
  IF i > Len(a) THEN i <= Len(b)
  ELSE IF i > Len(b) THEN FALSE
  ELSE IF a[i] # b[i] THEN a[i] < b[i]
  ELSE BytesLess(a, b, i + 1)

\* String's Ord
StrLess(x, y) == BytesLess(Bytes(x), Bytes(y), 1)

RECURSIVE Insert(_, _), Sort(_)
Insert(sorted, key) ==
  IF sorted = <<>> THEN <<key>>
  ELSE IF StrLess(key, Head(sorted)) THEN <<key>> \o sorted
  ELSE <<Head(sorted)>> \o Insert(Tail(sorted), key)

\* keys.sort() that leaves the keys in the order of iteration
Unsorted(keys) == keys

\* keys.sort()
Sort(keys) == IF keys = <<>> THEN <<>> ELSE Insert(Sort(Tail(keys)), Head(keys))

\* Builtins::new, keys being builtins.keys() in the order of iteration
BuiltinsNew(keys) ==
  Bind(Sort(keys), LAMBDA sorted_keys :
    [builtins |-> [name \in BuiltinNames |-> Builtin(name)],
     sorted |-> [name \in {sorted_keys[i] : i \in 1..Len(sorted_keys)} |->
                   (CHOOSE i \in 1..Len(sorted_keys) : sorted_keys[i] = name) - 1],
     indexs |-> sorted_keys])

\* Builtins::get_index: Option<usize>, <<i>> for Some(i) and <<>> for None
GetIndex(b, name) == IF name \in DOMAIN b.sorted THEN <<b.sorted[name]>> ELSE <<>>

\* Builtins::get_by_index: Option<Object>
GetByIndex(b, index) ==
  IF index < Len(b.indexs)
  THEN IF b.indexs[index + 1] \in DOMAIN b.builtins THEN b.builtins[b.indexs[index + 1]]
       ELSE None
  ELSE None

\* Builtins::get_name: Option<String>, <<name>> for Some(name) and <<>> for None
GetName(b, index) == IF index < Len(b.indexs) THEN <<b.indexs[index + 1]>> ELSE <<>>

(***************************************************************************)
(* compiler.rs, symbol.rs: Compiler.  The compiler state c is [constants,   *)
(* instructions, pre_instructions, symbols, status]: the constant pool, the *)
(* instruction vector being written (positions count from 0 as in the       *)
(* code), the one vector that enter_scope put aside, the symbol tables from *)
(* the global one (first) to the current one (last; the tables before it    *)
(* are its chain of outer tables), and "ok", or "panic" once the compiler   *)
(* has met unimplemented! or an index out of range.  A compiler that has    *)
(* panicked compiles nothing more.  An opcode is [op, arg]; arg is 0 for an *)
(* opcode without an operand and <<index, free_count>> for Closure.         *)
(* accesses is a history of the compilation, not a field of the struct: it  *)
(* lists, for every opcode emitted to read or write a name, the opcode and  *)
(* the symbol of the name, [op, symbol].                                    *)
(***************************************************************************)
Opcode(op, arg) == [op |-> op, arg |-> arg]

Symbol(scope, index) == [scope |-> scope, index |-> index]

SymbolTableNew == [store |-> EmptyMap, num_definitions |-> 0, free_symbols |-> <<>>]

CompiledFunction(instructions, num_locals, num_parameters) ==
  [t |-> "CompiledFunction", instructions |-> instructions, num_locals |-> num_locals,
   num_parameters |-> num_parameters]

CompilerNew ==
  [constants |-> <<>>, instructions |-> <<>>, pre_instructions |-> <<>>,
   symbols |-> <<SymbolTableNew>>, status |-> "ok", accesses |-> <<>>]

Emit(c, op) == [c EXCEPT !.instructions = Append(@, op)]

\* emit of an opcode that reads or writes the name with the symbol s
Access(c, op, s) ==
  [c EXCEPT !.instructions = Append(@, op),
            !.accesses = Append(@, [op |-> op, symbol |-> s])]

Unimplemented(c) == [c EXCEPT !.status = "panic"]

\* self.symbols: the current table
Symbols(c) == c.symbols[Len(c.symbols)]

\* SymbolTable::define in the current table: Global in the table without an
\* outer one, Local elsewhere; the index is the table's num_definitions
Define(c, name) ==
  LET symbol == Symbol(IF Len(c.symbols) = 1 THEN "Global" ELSE "Local",
                       Symbols(c).num_definitions)
  IN [c EXCEPT !.symbols[Len(c.symbols)] =
        [@ EXCEPT !.store = (name :> symbol) @@ @, !.num_definitions = @ + 1]]

\* the symbol that define has returned for name
Defined(c, name) == Symbols(c).store[name]

RECURSIVE ResolveIn(_, _, _)
\* SymbolTable::resolve in table n of the chain: the symbol, or None.  A name
\* found in an outer table that is neither Global nor Builtin becomes Free.
ResolveIn(symbols, n, name) ==
  IF name \in DOMAIN symbols[n].store THEN symbols[n].store[name]
  ELSE IF n = 1 THEN None
  ELSE Bind(ResolveIn(symbols, n - 1, name), LAMBDA s :
         IF s = None \/ s.scope \in {"Global", "Builtin"} THEN s
         ELSE Symbol("Free", Len(symbols[n].free_symbols)))

Resolve(c, name) == ResolveIn(c.symbols, Len(c.symbols), name)

\* SymbolTable::define_builtin in the current table
DefineBuiltin(c, index, name) ==
  [c EXCEPT !.symbols[Len(c.symbols)].store = (name :> Symbol("Builtin", index)) @@ @]

\* what resolve leaves behind in the current table: define_free of the symbol
\* that the outer table returned for a name, unless it is Global or Builtin.
\* The outer table is resolved on a clone, so no outer table changes.  An
\* entry of free_symbols is the original symbol with its name.
DefineFree(c, name) ==
  IF name \in DOMAIN Symbols(c).store \/ Len(c.symbols) = 1 THEN c
  ELSE Bind(ResolveIn(c.symbols, Len(c.symbols) - 1, name), LAMBDA original :
         IF original = None \/ original.scope \in {"Global", "Builtin"} THEN c
         ELSE [c EXCEPT !.symbols[Len(c.symbols)] =
                 [@ EXCEPT !.store = (name :> Symbol("Free", Len(Symbols(c).free_symbols)))
                                       @@ @,
                           !.free_symbols =
                             Append(@, [name |-> name, scope |-> original.scope,
                                        index |-> original.index])]])

\* Compiler::load_symbol
LoadSymbol(c, s) ==
  CASE s.scope = "Global" -> Access(c, Opcode("GetGlobal", s.index), s)
    [] s.scope = "Local" -> Access(c, Opcode("GetLocal", s.index), s)
    [] s.scope = "Free" -> Access(c, Opcode("GetFree", s.index), s)
    [] s.scope = "Builtin" -> Access(c, Opcode("GetBuiltin", s.index), s)
    [] OTHER -> Access(c, Opcode("CurrentClosure", 0), s)

\* Compiler::enter_scope: a new table inside the current one; the current
\* instructions go to pre_instructions, whatever was there is overwritten
EnterScope(c) ==
  [c EXCEPT !.symbols = Append(@, SymbolTableNew),
            !.pre_instructions = c.instructions,
            !.instructions = <<>>]

\* Compiler::leave_scope: back to the outer table and to pre_instructions,
\* which is emptied; the value returned is c.instructions
LeaveScope(c) ==
  [c EXCEPT !.symbols = SubSeq(@, 1, Len(@) - 1),
            !.instructions = c.pre_instructions,
            !.pre_instructions = <<>>]

\* self.instructions[pos] = op
Patch(c, pos, op) ==
  IF c.status # "ok" THEN c
  ELSE IF pos >= Len(c.instructions) THEN Unimplemented(c)
  ELSE [c EXCEPT !.instructions[pos + 1] = op]

\* the opcode of a binary operator token ("" where the match has none)
InfixOpcode(op) ==
  CASE op = "Plus" -> "Add"
    [] op = "Star" -> "Multiply"
    [] op = "Slash" -> "Divide"
    [] op = "Mod" -> "Mod"
    [] op = "Minus" -> "Minus"
    [] op = "Greater" -> "GreaterThan"
    [] op = "Less" -> "LessThan"
    [] op = "EqualEqual" -> "EqualEqual"
    [] OTHER -> ""

RECURSIVE CompileExpression(_, _), CompileStatement(_, _), CompileStmts(_, _, _),
          CompileExprs(_, _, _), CompileElseIfs(_, _, _, _), PatchAll(_, _, _),
          DefineArgs(_, _, _)

\* for stmt in stmts { self.compile_statement(stmt) }
CompileStmts(c, stmts, i) ==
  IF i > Len(stmts) THEN c
  ELSE CompileStmts(CompileStatement(c, stmts[i]), stmts, i + 1)

\* for expr in exprs { self.compile_expression(expr) }
CompileExprs(c, exprs, i) ==
  IF i > Len(exprs) THEN c
  ELSE CompileExprs(CompileExpression(c, exprs[i]), exprs, i + 1)

\* ExprType::InfixExpr: an assignment resolves the name, compiles its right
\* side and then loads the symbol; any other operator compiles left, right
\* and the opcode
CompileInfix(c, left, op, right) ==
  IF op = "Equal"
  THEN IF left.k # "Ident" \/ Resolve(c, left.name) = None THEN Unimplemented(c)
       ELSE Bind(CompileExpression(DefineFree(c, left.name), right), LAMBDA c1 :
              IF c1.status # "ok" THEN c1
              ELSE LoadSymbol(c1, Resolve(c, left.name)))
  ELSE Bind(CompileExpression(CompileExpression(c, left), right), LAMBDA c1 :
         IF c1.status # "ok" THEN c1
         ELSE IF InfixOpcode(op) # "" THEN Emit(c1, Opcode(InfixOpcode(op), 0))
         ELSE IF op = "PlusSelf" /\ left.k = "Ident" /\ Resolve(c1, left.name) # None
         THEN Access(Emit(DefineFree(c1, left.name), Opcode("Add", 0)),
                     Opcode("SetGlobal", Resolve(c1, left.name).index),
                     Resolve(c1, left.name))
         ELSE Unimplemented(c1))

\* PatchAll that leaves the jumps to the end of the chain as they were emitted
PatchNone(c, endif, i) == c

\* for pos in endif.iter() { self.instructions[*pos] = Jump(len) }
PatchAll(c, endif, i) ==
  IF i > Len(endif) THEN c
  ELSE PatchAll(Patch(c, endif[i], Opcode("Jump", Len(c.instructions))), endif, i + 1)

\* the else-if arms of ExprType::If, the else block and the patching of the
\* jumps to the end of the chain, whose positions endif collects
CompileElseIfs(c, node, i, endif) ==
  IF c.status # "ok" THEN c
  ELSE IF i > Len(node.elseif)
  THEN Bind(IF Len(node.else_branch) > 0 THEN CompileStmts(c, node.else_branch, 1) ELSE c,
            LAMBDA c1 : PatchAll(c1, endif, 1))
  ELSE Bind(CompileExpression(c, node.elseif[i].condition), LAMBDA c1 :
       Bind(CompileStmts(Emit(c1, Opcode("JumpIfFalse", 0)), node.elseif[i].block, 1),
            LAMBDA c2 :
       Bind(IF Len(node.else_branch) > 0 THEN Emit(c2, Opcode("Jump", 9999)) ELSE c2,
            LAMBDA c3 :
         CompileElseIfs(
           Patch(c3, Len(c1.instructions), Opcode("JumpIfFalse", Len(c3.instructions))),
           node, i + 1,
           IF Len(node.else_branch) > 0
           THEN Append(endif, Len(c2.instructions)) ELSE endif))))

\* ExprType::If: condition, JumpIfFalse past the then block, the then block,
\* a Jump to the end when there is an else block, then the rest of the chain
CompileIf(c, node) ==
  Bind(CompileExpression(c, node.condition), LAMBDA c1 :
  Bind(CompileStmts(Emit(c1, Opcode("JumpIfFalse", 0)), node.then_branch, 1), LAMBDA c2 :
  Bind(IF Len(node.else_branch) > 0 THEN Emit(c2, Opcode("Jump", 9999)) ELSE c2,
       LAMBDA c3 :
    CompileElseIfs(
      Patch(c3, Len(c1.instructions), Opcode("JumpIfFalse", Len(c3.instructions))),
      node, 1,
      IF Len(node.else_branch) > 0 THEN <<Len(c2.instructions)>> ELSE <<>>))))

\* the callee of ExprType::Call: GetBuiltin(index) for a name the registry
\* knows; any other name is resolved and loaded with GetGlobal whatever its
\* scope
CompileCallee(c, callee) ==
  IF callee.k # "Ident" THEN Unimplemented(c)
  ELSE Bind(GetIndex(BuiltinsNew(NewBuiltins), callee.name), LAMBDA index :
         IF index # <<>>
         THEN Access(c, Opcode("GetBuiltin", index[1]), Symbol("Builtin", index[1]))
         ELSE IF Resolve(c, callee.name) = None THEN Unimplemented(c)
         ELSE Access(DefineFree(c, callee.name),
                     Opcode("GetGlobal", Resolve(c, callee.name).index),
                     Resolve(c, callee.name)))

\* ExprType::Call: the callee, the arguments from left to right, Call(n)
CompileCall(c, callee, args) ==
  Bind(CompileExprs(CompileCallee(c, callee), args, 1), LAMBDA c1 :
    IF c1.status # "ok" THEN c1 ELSE Emit(c1, Opcode("Call", Len(args))))

CompileExpression(c, expr) ==
  IF c.status # "ok" THEN c
  ELSE CASE expr.k = "InfixExpr" -> CompileInfix(c, expr.left, expr.op, expr.right)
         [] expr.k = "PrintExpr" ->
              Bind(CompileExprs(c, expr.exprs, 1), LAMBDA c1 :
                IF c1.status # "ok" THEN c1
                ELSE Emit(c1, Opcode("Print", Len(expr.exprs))))
         [] expr.k = "PrefixExpr" ->
              Bind(CompileExpression(c, expr.expr), LAMBDA c1 :
                IF c1.status # "ok" THEN c1
                ELSE IF expr.op = "Minus" THEN Emit(c1, Opcode("Nagetive", 0))
                ELSE Unimplemented(c1))
         [] expr.k = "Literal" ->
              IF expr.lit.t \in {"Number", "String", "Boolean", "Nil"}
              THEN Emit([c EXCEPT !.constants = Append(@, expr.lit)],
                        Opcode("LoadConstant", Len(c.constants)))
              ELSE Unimplemented(c)
         [] expr.k = "Ident" ->
              IF Resolve(c, expr.name) = None THEN Unimplemented(c)
              ELSE LoadSymbol(DefineFree(c, expr.name), Resolve(c, expr.name))
         [] expr.k = "Call" -> CompileCall(c, expr.callee, expr.args)
         [] expr.k = "If" -> CompileIf(c, expr)
         [] OTHER -> Unimplemented(c)

\* for arg in args { define(arg); emit(SetGlobal(symbol.index)) }
DefineArgs(c, args, i) ==
  IF i > Len(args) THEN c
  ELSE DefineArgs(Access(Define(c, args[i]),
                         Opcode("SetGlobal", Symbols(c).num_definitions),
                         Defined(Define(c, args[i]), args[i])),
                  args, i + 1)

\* Stmt::Function: the name is defined in the current table; the body is
\* compiled in a new scope after a SetGlobal of the name and of each
\* parameter; num_locals is read from self.symbols after leave_scope
CompileFunction(c, stmt) ==
  LET index == Symbols(c).num_definitions
      symbol == Defined(Define(c, stmt.name), stmt.name)
  IN Bind(CompileStmts(
            DefineArgs(Access(EnterScope(Define(c, stmt.name)), Opcode("SetGlobal", index),
                              symbol),
                       stmt.params, 1),
            stmt.body, 1), LAMBDA c1 :
       IF c1.status # "ok" THEN c1
       ELSE Bind(LeaveScope(c1), LAMBDA c2 :
              Access(Emit(Emit(
                [c2 EXCEPT !.constants =
                   Append(@, CompiledFunction(c1.instructions,
                                              Symbols(c2).num_definitions,
                                              Len(stmt.params)))],
                Opcode("LoadConstant", Len(c2.constants))),
                Opcode("Closure", <<Len(c2.constants), Symbols(c2).num_definitions>>)),
                Opcode("SetGlobal", index), symbol)))

\* Stmt::For: init, the condition at start, JumpIfFalse to the end, the
\* block, the step, Jump(start)
CompileFor(c, stmt) ==
  Bind(CompileStatement(c, stmt.init), LAMBDA c1 :
  Bind(CompileExpression(c1, stmt.conditions), LAMBDA c2 :
  Bind(CompileStatement(CompileStmts(Emit(c2, Opcode("JumpIfFalse", 0)), stmt.block, 1),
                        stmt.step), LAMBDA c3 :
    IF c3.status # "ok" THEN c3
    ELSE Bind(Emit(c3, Opcode("Jump", Len(c1.instructions))), LAMBDA c4 :
           Patch(c4, Len(c2.instructions),
                 Opcode("JumpIfFalse", Len(c4.instructions)))))))

\* Stmt::Assert: the condition and Assert(0); with a message that is a
\* non-empty string literal also the message, Print(1), Exit(3), and the
\* operand of the Assert is patched to the length of the vector
CompileAssert(c, stmt) ==
  Bind(CompileExpression(c, stmt.condition), LAMBDA c1 :
    LET msg == IF stmt.message.k = "Literal" /\ stmt.message.lit.t = "String"
               THEN stmt.message.lit.s ELSE ""
    IN IF c1.status # "ok" THEN c1
       ELSE IF msg = "" THEN Emit(c1, Opcode("Assert", 0))
       ELSE Bind(CompileExpression(Emit(c1, Opcode("Assert", 0)), stmt.message),
                 LAMBDA c2 :
              IF c2.status # "ok" THEN c2
              ELSE Bind(Emit(Emit(c2, Opcode("Print", 1)), Opcode("Exit", 3)), LAMBDA c3 :
                     Patch(c3, Len(c1.instructions),
                           Opcode("Assert", Len(c3.instructions))))))

\* Stmt::Expr, Var, Block, Function, For, Assert and Return; the other
\* statements are outside the modelled subset
CompileStatement(c, stmt) ==
  IF c.status # "ok" THEN c
  ELSE CASE stmt.k = "Expr" -> CompileExpression(c, stmt.expr)
         [] stmt.k = "Var" ->
              Bind(CompileExpression(c, stmt.expr), LAMBDA c1 :
                IF c1.status # "ok" THEN c1
                ELSE Access(Define(c1, stmt.name),
                            Opcode(IF Len(c1.symbols) = 1 THEN "SetGlobal" ELSE "SetLocal",
                                   Symbols(c1).num_definitions),
                            Defined(Define(c1, stmt.name), stmt.name)))
         [] stmt.k = "Block" -> CompileStmts(c, stmt.stmts, 1)
         [] stmt.k = "Function" -> CompileFunction(c, stmt)
         [] stmt.k = "For" -> CompileFor(c, stmt)
         [] stmt.k = "Assert" -> CompileAssert(c, stmt)
         [] stmt.k = "Return" ->
              Bind(CompileExpression(c, stmt.expr), LAMBDA c1 :
                IF c1.status # "ok" THEN c1 ELSE Emit(c1, Opcode("ReturnValue", 0)))
         [] OTHER -> [c EXCEPT !.status = "unmodelled"]

(***************************************************************************)
(* vm.rs, callstack.rs, frame.rs: VM.  The machine is [constants, stack,    *)
(* sp, globals, ip, end_ip, instructions, main_len, call_stack,             *)
(* frame_index, running, out, calls, status, code].  sp is the stack        *)
(* pointer that push and pop count along with the stack; ip and end_ip are  *)
(* the locals of the frame that run() is executing; call_stack holds the    *)
(* frames that were pushed and not yet popped, each [ip, end_ip, dangling]; *)
(* running is FALSE once the loop of run() has ended; out is the sequence   *)
(* of values written to standard output; calls lists the built-in calls     *)
(* made, each [name, args]; status is "ok", "panic" (pop of an empty stack, *)
(* an index out of range, a subtraction below zero, panic!, an              *)
(* unimplemented opcode) or "exit" with the exit code in code.  globals     *)
(* holds the slots that were written; every other slot is NIL.  The counter *)
(* count, which run() only prints, is left out.                             *)
(***************************************************************************)
VMNew(main_len, instructions, constants) ==
  [constants |-> constants, stack |-> <<>>, sp |-> 0, globals |-> EmptyMap, ip |-> 0,
   end_ip |-> main_len, instructions |-> instructions, main_len |-> main_len,
   call_stack |-> <<>>, frame_index |-> 0, running |-> FALSE,
   out |-> <<>>, calls |-> <<>>, status |-> "ok", code |-> 0]

\* the function object that the Closure arm of the VM matches: its
\* instructions are instructions[main_len + start .. main_len + start + len)
FunctionRange(start, len) == [t |-> "CompiledFunction", start |-> start, len |-> len]

\* Frame::new as the Closure arm calls it; the frame is a local of the arm
\* and the call stack keeps a pointer to it after the arm has ended
Frame(ip, end_ip, dangling) == [ip |-> ip, end_ip |-> end_ip, dangling |-> dangling]

\* the result of a binary opcode on the popped operands
BinaryResult(op, left, right) ==
  IF left.t = "Number" /\ right.t = "Number"
  THEN CASE op = "Add" -> Number(left.n + right.n)
         [] op = "Minus" -> Number(left.n - right.n)
         [] op = "Multiply" -> Number(left.n * right.n)
         [] op = "GreaterThan" -> Boolean(left.n > right.n)
         [] op = "LessThan" -> Boolean(left.n < right.n)
         [] op = "EqualEqual" -> Boolean(left.n = right.n)
         [] OTHER -> None
  ELSE Nil

\* VM::pop_frame: frame_index is unsigned, and VM::push_frame, the one place
\* that raises it, is never called, so the subtraction goes below zero (a
\* panic in a checked build; unchecked, current_frame().unwrap() on None)
PopFrame(m) ==
  IF m.frame_index = 0 THEN [m EXCEPT !.status = "panic"]
  ELSE [m EXCEPT !.frame_index = @ - 1]

\* the Closure arm: push_closure splits free_count values off the stack and
\* reads globals[index]; a function found there gets a frame on the call
\* stack
ExecuteClosure(m, index, free_count) ==
  LET at == m.sp - free_count
      value == IF index \in DOMAIN m.globals THEN m.globals[index] ELSE Nil
  IN IF at < 0 \/ at > Len(m.stack) THEN [m EXCEPT !.status = "panic"]
     ELSE IF value.t # "CompiledFunction"
     THEN [m EXCEPT !.stack = SubSeq(@, 1, at), !.sp = @ - free_count, !.ip = @ + 1]
     ELSE IF "start" \notin DOMAIN value THEN [m EXCEPT !.status = "unmodelled"]
     ELSE [m EXCEPT !.stack = SubSeq(@, 1, at),
                    !.sp = @ - free_count,
                    !.call_stack = Append(@, Frame(m.main_len + value.start,
                                                   m.main_len + value.start + value.len,
                                                   TRUE)),
                    !.ip = @ + 1]

\* the Call arm after the pop of func, a built-in: the arguments are split
\* off at sp - n, the function is called and its result dropped.  print and
\* println write their arguments; the other built-ins write nothing.
ExecuteCall(m, func, n) ==
  LET at == m.sp - n
      args == SubSeq(m.stack, at + 1, Len(m.stack))
  IN IF at < 0 \/ at > Len(m.stack) THEN [m EXCEPT !.status = "panic"]
     ELSE [m EXCEPT !.stack = SubSeq(@, 1, at),
                    !.sp = @ - n,
                    !.calls = Append(@, [name |-> func.name, args |-> args]),
                    !.out = IF func.name \in {"print", "println"} THEN @ \o args ELSE @,
                    !.ip = @ + 1]

\* VM::execute: one instruction.  Divide and Mod of numbers (floating point)
\* and GetFree are outside the modelled subset.
Execute(m, instruction) ==
  LET n == Len(m.stack)
      Pop(k) == SubSeq(m.stack, 1, n - k)
      Panic == [m EXCEPT !.status = "panic"]
      op == instruction.op
      arg == instruction.arg
  IN CASE op \in {"Add", "Divide", "Minus", "Multiply", "Mod", "LessThan", "EqualEqual",
                  "GreaterThan"} ->
            IF n < 2 THEN Panic
            ELSE Bind(BinaryResult(op, m.stack[n - 1], m.stack[n]), LAMBDA result :
                   IF result = None THEN [m EXCEPT !.status = "unmodelled"]
                   ELSE [m EXCEPT !.stack = Append(Pop(2), result), !.sp = @ - 1,
                                  !.ip = @ + 1])
       [] op \in {"ReturnValue", "Return"} ->
            \* let obj = self.pop(); self.pop_frame(); self.push(obj); ip + 1
            IF n < 1 THEN Panic
            ELSE Bind(PopFrame(m), LAMBDA m1 :
                   IF m1.status # "ok" THEN m1 ELSE [m1 EXCEPT !.ip = @ + 1])
       [] op = "JumpIfFalse" ->
            IF n < 1 THEN Panic
            ELSE [m EXCEPT !.stack = Pop(1), !.sp = @ - 1,
                           !.ip = IF m.stack[n] = Boolean(FALSE) THEN arg ELSE @ + 1]
       [] op = "Jump" -> [m EXCEPT !.ip = arg]
       [] op = "LoadConstant" ->
            IF arg >= Len(m.constants) THEN Panic
            ELSE [m EXCEPT !.stack = Append(@, m.constants[arg + 1]), !.sp = @ + 1,
                           !.ip = @ + 1]
       [] op = "Pop" ->
            IF n < 1 THEN Panic
            ELSE [m EXCEPT !.stack = Pop(1), !.sp = @ - 1, !.ip = @ + 1]
       [] op = "Abs" ->
            IF n < 1 THEN Panic
            ELSE [m EXCEPT !.stack = Append(Pop(1), Number(IF m.stack[n].t # "Number" THEN 0
                                                           ELSE IF m.stack[n].n < 0
                                                           THEN 0 - m.stack[n].n
                                                           ELSE m.stack[n].n)),
                           !.ip = @ + 1]
       [] op = "Nagetive" ->
            IF n < 1 THEN Panic
            ELSE [m EXCEPT !.stack = Append(Pop(1), Number(IF m.stack[n].t = "Number"
                                                           THEN 0 - m.stack[n].n ELSE 0)),
                           !.ip = @ + 1]
       [] op = "Assert" ->
            \* let obj = self.pop(); false: panic!("assert failed"), else *pos
            IF n < 1 \/ m.stack[n] = Boolean(FALSE) THEN Panic
            ELSE [m EXCEPT !.stack = Pop(1), !.sp = @ - 1, !.ip = arg]
       [] op = "Exit" -> [m EXCEPT !.status = "exit", !.code = arg]
       [] op = "Print" ->
            \* for _ in 0..n { let obj = self.pop(); print!("{} ", obj); }
            LET k == IF arg < n THEN arg ELSE n
            IN [m EXCEPT !.out = @ \o [i \in 1..k |-> m.stack[n + 1 - i]],
                         !.stack = Pop(k),
                         !.sp = @ - k,
                         !.ip = @ + 1,
                         !.status = IF arg > n THEN "panic" ELSE @]
       [] op = "GetGlobal" ->
            [m EXCEPT !.stack = Append(@, IF arg \in DOMAIN m.globals
                                          THEN m.globals[arg] ELSE Nil),
                      !.sp = @ + 1,
                      !.ip = @ + 1]
       [] op = "SetGlobal" ->
            IF n < 1 THEN Panic
            ELSE [m EXCEPT !.stack = Pop(1),
                           !.sp = @ - 1,
                           !.globals = (arg :> m.stack[n]) @@ m.globals,
                           !.ip = @ + 1]
       [] op = "GetBuiltin" ->
            Bind(GetByIndex(BuiltinsNew(NewBuiltins), arg), LAMBDA obj :
              IF obj = None THEN Panic
              ELSE [m EXCEPT !.stack = Append(@, obj), !.sp = @ + 1, !.ip = @ + 1])
       [] op = "Call" ->
            \* let func = self.pop(): a built-in, or the arm is unimplemented!
            IF n < 1 THEN Panic
            ELSE IF m.stack[n].t = "Builtin"
            THEN ExecuteCall([m EXCEPT !.stack = Pop(1), !.sp = @ - 1], m.stack[n], arg)
            ELSE Panic
       [] op = "Closure" -> ExecuteClosure(m, arg[1], arg[2])
       [] op \in {"SetLocal", "GetLocal"} -> [m EXCEPT !.ip = @ + 1]
       [] OTHER -> [m EXCEPT !.status = "unmodelled"]

\* what reading ip and end_ip through the pointer on the call stack can
\* give: the values the frame was built with, or, the frame being a local
\* that is gone, whatever the memory holds now
FrameRead(m, frame) ==
  IF ~frame.dangling THEN {frame}
  ELSE {frame} \cup {Frame(ip, end_ip, TRUE) : ip \in 0..(Len(m.instructions) + 1),
                                              end_ip \in 0..(Len(m.instructions) + 1)}

\* while let Some(frame) = call_stack.pop_frame(): the next frame that has
\* an instruction to execute becomes the running one; with no frame left the
\* loop of run() ends
NextFrame(m) ==
  IF m.call_stack = <<>> THEN {[m EXCEPT !.running = FALSE]}
  ELSE {[m EXCEPT !.call_stack = <<>>, !.ip = frame.ip, !.end_ip = frame.end_ip,
                  !.running = frame.ip < frame.end_ip] :
          frame \in FrameRead(m, m.call_stack[Len(m.call_stack)])}

\* VM::run up to its first instruction: the main frame is pushed and popped
RunStart(m) ==
  [m EXCEPT !.ip = 0, !.end_ip = m.main_len, !.running = 0 < m.main_len]

\* one turn of  while ip < end_ip { ip = self.execute(.., instruction, ip);
\* if Closure { break } }  and, when the inner loop ends, the pop of the next
\* frame
RunTurn(m) ==
  IF m.ip >= Len(m.instructions) THEN {[m EXCEPT !.status = "panic"]}
  ELSE Bind(Execute(m, m.instructions[m.ip + 1]), LAMBDA m1 :
         IF m1.status # "ok" THEN {m1}
         ELSE IF m.instructions[m.ip + 1].op = "Closure" \/ m1.ip >= m1.end_ip
         THEN NextFrame(m1)
         ELSE {m1})

(***************************************************************************)
(* lexer.rs: Lexing.  The lexer is [input, position, lines, errors,         *)
(* status]: input is the source as a sequence of characters (the Chars      *)
(* iterator has handed out the first position of them), errors is a list of *)
(* [line, message], status is "ok" or "panic" (unwrap on the exhausted      *)
(* iterator).  A step yields [lx, tok]; tok is None where no token is       *)
(* returned.                                                                *)
(***************************************************************************)
NUL == "NUL"

LexingNew(input) ==
  [input |-> input, position |-> 0, lines |-> 0, errors |-> <<>>, status |-> "ok"]

Keywords ==
  ("var" :> "Var") @@ ("and" :> "And") @@ ("class" :> "Class") @@ ("else" :> "Else")
  @@ ("false" :> "False") @@ ("for" :> "For") @@ ("fun" :> "Fun") @@ ("if" :> "If")
  @@ ("nil" :> "Nil") @@ ("or" :> "Or") @@ ("print" :> "Print") @@ ("return" :> "Return")
  @@ ("super" :> "Super") @@ ("this" :> "This") @@ ("true" :> "True")
  @@ ("while" :> "While") @@ ("switch" :> "Switch") @@ ("case" :> "Case")
  @@ ("default" :> "Default") @@ ("new" :> "New") @@ ("in" :> "In")
  @@ ("import" :> "Import")

IsNumeric(c) == c \in {"0", "1", "2", "3", "4", "5", "6", "7", "8", "9"}

IsAlphabetic(c) ==
  c \in {"a", "b", "c", "d", "e", "f", "g", "h", "i", "j", "k", "l", "m", "n", "o", "p",
         "q", "r", "s", "t", "u", "v", "w", "x", "y", "z", "A", "B", "C", "D", "E", "F",
         "G", "H", "I", "J", "K", "L", "M", "N", "O", "P", "Q", "R", "S", "T", "U", "V",
         "W", "X", "Y", "Z"}

Lx(lx, tok) == [lx |-> lx, tok |-> tok]

Peek(lx) ==
  IF Len(lx.input) > lx.position THEN lx.input[lx.position + 1] ELSE NUL

PeekN(lx, n) ==
  IF Len(lx.input) > lx.position + n - 1 THEN lx.input[lx.position + n] ELSE NUL

\* self.input.nth(0).unwrap()
GetChar(lx) ==
  IF lx.position >= Len(lx.input)
  THEN [lx EXCEPT !.position = @ + 1, !.status = "panic"]
  ELSE [lx EXCEPT !.position = @ + 1,
                  !.lines = IF lx.input[lx.position + 1] = "\n" THEN @ + 1 ELSE @]

PushError(lx, message) ==
  [lx EXCEPT !.errors = Append(@, [line |-> lx.lines + 1, message |-> message])]

\* the escape arm of a string: the backslash, then the escaped character
LexEscape(lx, quote, s) ==
  Bind(GetChar(lx), LAMBDA lx1 :
  Bind(Peek(lx1), LAMBDA c :
  Bind(GetChar(lx1), LAMBDA lx2 :
    IF lx2.status # "ok" THEN [lx |-> lx2, s |-> s]
    ELSE IF c = quote \/ c = "\\" \/ (c = "'" /\ quote = "\"")
    THEN [lx |-> lx2, s |-> s \o c]
    ELSE IF c \in {"r", "n", "t", "0"}
    THEN [lx |-> lx2,
          s |-> s \o (CASE c = "r" -> "\r" [] c = "n" -> "\n" [] c = "t" -> "\t"
                        [] OTHER -> NUL)]
    ELSE [lx |-> PushError(lx2, "Unknown escape character"), s |-> s])))

RECURSIVE LexString(_, _, _), LexNumber(_, _), LexWord(_, _), LexComment(_, _), LexNext(_)

\* the loop of a string arm, after the opening quote
LexString(lx, quote, s) ==
  IF ~(Len(lx.input) > lx.position)
  THEN Lx(PushError(lx, "Unterminated string."), None)
  ELSE Bind(IF Peek(lx) = "\\" THEN LexEscape(lx, quote, s) ELSE [lx |-> lx, s |-> s],
            LAMBDA e :
         IF e.lx.status # "ok" THEN Lx(e.lx, None)
         ELSE IF Peek(e.lx) = quote THEN Lx(GetChar(e.lx), TString(e.s))
         ELSE IF e.lx.position >= Len(e.lx.input) THEN Lx(GetChar(e.lx), None)
         ELSE LexString(GetChar(e.lx), quote, e.s \o Peek(e.lx)))

LexNumber(lx, s) ==
  IF Len(lx.input) > lx.position
     /\ (IsNumeric(Peek(lx)) \/ (Peek(lx) = "." /\ IsNumeric(PeekN(lx, 2))))
  THEN LexNumber(GetChar(lx), s \o Peek(lx))
  ELSE Lx(lx, TNumber(s))

LexWord(lx, s) ==
  IF Len(lx.input) > lx.position
     /\ (IsAlphabetic(Peek(lx)) \/ Peek(lx) = "_" \/ IsNumeric(Peek(lx)))
  THEN LexWord(GetChar(lx), s \o Peek(lx))
  ELSE Lx(lx, IF s \in DOMAIN Keywords THEN T(Keywords[s]) ELSE TIdent(s))

LexComment(lx, s) ==
  IF ~(Len(lx.input) > lx.position) THEN Lx(lx, TComment(s))
  ELSE IF Peek(lx) = "\n" THEN Lx(GetChar(lx), TComment(s))
  ELSE LexComment(GetChar(lx), s \o Peek(lx))

\* the arms that read one more character after the first
LexTwo(lx, second, both, one) ==
  IF Peek(GetChar(lx)) = second THEN Lx(GetChar(GetChar(lx)), T(both))
  ELSE Lx(GetChar(lx), T(one))

SingleTokens ==
  [c \in {";", "(", ")", "{", "}", ":", "[", "]", "*", "-", "+", ",", "."} |->
     CASE c = ";" -> "Semicolon" [] c = "(" -> "LeftParen" [] c = ")" -> "RightParen"
       [] c = "{" -> "LeftBrace" [] c = "}" -> "RightBrace" [] c = ":" -> "Colon"
       [] c = "[" -> "LeftBracket" [] c = "]" -> "RightBracket" [] c = "*" -> "Star"
       [] c = "-" -> "Minus" [] c = "+" -> "Plus" [] c = "," -> "Comma"
       [] OTHER -> "Dot"]

\* Lexing::next
LexNext(lx) ==
  IF ~(Len(lx.input) > lx.position) THEN Lx(lx, EofTok)
  ELSE Bind(Peek(lx), LAMBDA c :
    CASE c \in {" ", "\n", "\t"} -> LexNext(GetChar(lx))
      [] c = "=" -> LexTwo(lx, "=", "EqualEqual", "Equal")
      [] c = "!" -> LexTwo(lx, "=", "BangEqual", "Bang")
      [] c = "|" -> LexTwo(lx, "|", "Or", "BitOr")
      [] c = "&" -> LexTwo(lx, "&", "And", "BitAnd")
      [] c = "<" -> LexTwo(lx, "=", "LessEqual", "Less")
      [] c = ">" -> LexTwo(lx, "=", "GreaterEqual", "Greater")
      [] c \in {"'", "\""} ->
           Bind(LexString(GetChar(lx), c, ""), LAMBDA r :
             IF r.lx.status # "ok" \/ r.tok # None THEN r ELSE LexNext(r.lx))
      [] IsNumeric(c) -> LexNumber(lx, "")
      [] c \in DOMAIN SingleTokens -> Lx(GetChar(lx), T(SingleTokens[c]))
      [] c = "/" ->
           IF Peek(GetChar(lx)) = "/" THEN LexComment(GetChar(GetChar(lx)), "")
           ELSE Lx(GetChar(lx), T("Slash"))
      [] IsAlphabetic(c) \/ c = "_" -> LexWord(lx, "")
      [] OTHER -> LexNext(PushError(GetChar(lx), "Unexpected character")))

(***************************************************************************)
(* imports.rs: Imports.  The loader is [imports, program, files]: imports   *)
(* is the cache (file name -> program), program the program that was        *)
(* handed in, files the directory (file name -> the program the file        *)
(* parses to; every file is non-empty and parses without errors).  The      *)
(* result of load_all is [status, progs]; progs is None or a map.  A chain  *)
(* of nested load_all calls that is longer than the number of files has     *)
(* met a file twice and, as the cache does not change during load_all,      *)
(* never ends: status "overflow".                                           *)
(***************************************************************************)
ImportsNew(program, files) == [imports |-> EmptyMap, program |-> program, files |-> files]

RECURSIVE LoadAll(_, _, _), LoadImports(_, _, _, _, _)

\* Imports::load_all: the loop over the import statements of program
LoadImports(im, names, i, progs, depth) ==
  IF i > Len(names) THEN [status |-> "ok", progs |-> progs]
  ELSE Bind(names[i].s \o ".lox", LAMBDA filename :
    IF filename \notin DOMAIN im.files \/ im.files[filename] = <<>>
    THEN [status |-> "panic", progs |-> progs]
    ELSE IF filename \in DOMAIN im.imports
    THEN LoadImports(im, names, i + 1, progs, depth)
    ELSE IF depth >= Cardinality(DOMAIN im.files)
    THEN [status |-> "overflow", progs |-> progs]
    ELSE Bind(LoadAll(im, im.files[filename], depth + 1), LAMBDA sub :
           IF sub.status # "ok" THEN sub
           ELSE LoadImports(im, names, i + 1,
                            (filename :> im.files[filename])
                            @@ (IF sub.progs = None THEN progs ELSE sub.progs @@ progs),
                            depth)))

LoadAll(im, program, depth) ==
  Bind(SelectSeq(program, LAMBDA stmt : stmt.k = "Import"), LAMBDA names :
    IF names = <<>> THEN [status |-> "ok", progs |-> None]
    ELSE LoadImports(im, names, 1, EmptyMap, depth))

\* the concatenation of the cached programs in the order the map hands them out
RECURSIVE Extend(_, _, _)
Extend(cache, order, i) ==
  IF i > Len(order) THEN <<>> ELSE cache[order[i]] \o Extend(cache, order, i + 1)

\* Imports::load; order is the iteration order of the HashMap self.imports
Load(im, order) ==
  Bind(LoadAll(im, im.program, 0), LAMBDA r :
    IF r.status # "ok" THEN [status |-> r.status, im |-> im, progs |-> <<>>]
    ELSE Bind(IF r.progs = None THEN im.imports ELSE r.progs @@ im.imports, LAMBDA cache :
           [status |-> "ok", im |-> [im EXCEPT !.imports = cache],
            progs |-> Extend(cache, order, 1) \o im.program]))

\* ======================= SPECIFICATIONS ==================================

(***************************************************************************)
(* SpecEnv: the Env operations as the evaluator drives them.  The cursor    *)
(* is the innermost node of a chain; entering a block, call or loop body    *)
(* adds a child (Env::new_with_outer) and leaving restores the cursor.      *)
(***************************************************************************)
EnvNames == {"x", "y"}
EnvVals == {Number(n) : n \in 1..MaxVal}


InitEnv ==
  /\ mode = "env"
  /\ envs = <<EnvNew>>
  /\ cur = 1
  /\ heap = <<>>
  /\ out = <<>>
  /\ status = "ok"
  /\ prog = <<>>
  /\ last = [op |-> "new"]
  /\ res = None
  /\ vm = None
  /\ lex = None
  /\ imports = None
  /\ builtins = None
  /\ symbol_table = None

EnvEnter ==
  /\ mode = "env"
  /\ Len(envs) < MaxDepth
  /\ envs' = Append(envs, NewWithOuter(cur))
  /\ cur' = Len(envs) + 1
  /\ last' = [op |-> "enter"]
  /\ UNCHANGED <<mode, heap, out, status, prog, res, vm, lex, imports, builtins, symbol_table>>

EnvLeave ==
  /\ mode = "env"
  /\ envs[cur].outer # 0
  /\ cur' = envs[cur].outer
  /\ envs' = SubSeq(envs, 1, Len(envs) - 1)
  /\ last' = [op |-> "leave"]
  /\ UNCHANGED <<mode, heap, out, status, prog, res, vm, lex, imports, builtins, symbol_table>>

EnvDoSet ==
  /\ mode = "env"
  /\ \E name \in EnvNames, value \in EnvVals :
       /\ envs' = EnvSet(envs, cur, name, value)
       /\ last' = [op |-> "set", name |-> name, value |-> value]
  /\ UNCHANGED <<mode, cur, heap, out, status, prog, res, vm, lex, imports, builtins, symbol_table>>

EnvDoSetStore ==
  /\ mode = "env"
  /\ \E name \in EnvNames, value \in EnvVals :
       /\ envs' = EnvSetStore(envs, cur, name, value)
       /\ last' = [op |-> "set_store", name |-> name, value |-> value]
  /\ UNCHANGED <<mode, cur, heap, out, status, prog, res, vm, lex, imports, builtins, symbol_table>>

EnvDoGet ==
  /\ mode = "env"
  /\ \E name \in EnvNames :
       /\ res' = EnvGet(envs, cur, name)
       /\ last' = [op |-> "get", name |-> name]
  /\ UNCHANGED <<mode, envs, cur, heap, out, status, prog, vm, lex, imports, builtins, symbol_table>>

NextEnv == EnvEnter \/ EnvLeave \/ EnvDoSet \/ EnvDoSetStore \/ EnvDoGet

SpecEnv == InitEnv /\ [][NextEnv]_vars

(***************************************************************************)
(* C3: Env::set(name, value) updates the binding of name in the nearest     *)
(* environment that already binds it, searching from the current            *)
(* environment outward through every ancestor; only when no environment on  *)
(* the chain binds name does it create the binding, in the current store.   *)
(***************************************************************************)
RECURSIVE NearestBinder(_, _, _)
NearestBinder(es, id, name) ==
  IF name \in DOMAIN es[id].store THEN id
  ELSE IF es[id].outer # 0 THEN NearestBinder(es, es[id].outer, name)
  ELSE 0

C3_SetUpdatesNearestBinding ==
  [][(mode = "env" /\ last'.op = "set") =>
       LET b == NearestBinder(envs, cur, last'.name)
       IN envs' = StoreInsert(envs, IF b = 0 THEN cur ELSE b, last'.name, last'.value)]_vars

(***************************************************************************)
(* SpecParse: the parser run on token sequences.  ParseChain parses an      *)
(* expression statement  x op1 y op2 z ;  for every pair of infix operator  *)
(* tokens and identifier or number operands; ParseTokens parses every       *)
(* token sequence of up to MaxToks tokens over a small alphabet.  Each       *)
(* behaviour is one run of the parser on one input.                         *)
(***************************************************************************)
MaxToks == 3

Operand1 == {TIdent("a"), TNumber("1")}
Operand2 == {TIdent("b"), TNumber("2")}
Operand3 == {TIdent("c"), TNumber("3")}

TokAlphabet ==
  {TIdent("a"), TNumber("1"), T("Plus"), T("Equal"), T("LeftParen"), T("RightParen"),
   T("Semicolon"), T("Print")}

TokSeqs(n) == UNION {[1..m -> TokAlphabet] : m \in 0..n}

InitParse ==
  /\ mode = "parse"
  /\ envs = <<>>
  /\ cur = 0
  /\ heap = <<>>
  /\ out = <<>>
  /\ status = "ok"
  /\ prog = <<>>
  /\ last = [op |-> "new"]
  /\ res = Parse(<<>>)
  /\ vm = None
  /\ lex = None
  /\ imports = None
  /\ builtins = None
  /\ symbol_table = None

ParseChain ==
  /\ mode = "parse"
  /\ last.op = "new"
  /\ \E x \in Operand1, y \in Operand2, z \in Operand3, op1 \in InfixTokens,
        op2 \in InfixTokens :
       LET toks == <<x, T(op1), y, T(op2), z, T("Semicolon")>>
       IN /\ last' = [op |-> "chain", x |-> x, op1 |-> op1, y |-> y, op2 |-> op2, z |-> z]
          /\ res' = Parse(toks)
          /\ status' = res'.p.status
  /\ UNCHANGED <<mode, envs, cur, heap, out, prog, vm, lex, imports, builtins, symbol_table>>

ParseTokens ==
  /\ mode = "parse"
  /\ last.op = "new"
  /\ \E toks \in TokSeqs(MaxToks) :
       /\ last' = [op |-> "tokens", toks |-> toks]
       /\ res' = Parse(toks)
       /\ status' = res'.p.status
  /\ UNCHANGED <<mode, envs, cur, heap, out, prog, vm, lex, imports, builtins, symbol_table>>

\* the tokens that lead into each loop of the parser
LoopOpeners ==
  [statements |-> <<>>,
   block |-> <<T("LeftBrace")>>,
   call |-> <<TIdent("a"), T("LeftParen")>>,
   constructor |-> <<T("New"), TIdent("a"), T("LeftParen")>>,
   array |-> <<T("LeftBracket")>>,
   hash |-> <<TIdent("a"), T("Equal"), T("LeftBrace")>>,
   print |-> <<T("Print")>>,
   parameters |-> <<T("Fun"), TIdent("a"), T("LeftParen")>>]

\* the parser inside one of its loops, on an input that ends there or one token
\* later
ParseLoop ==
  /\ mode = "parse"
  /\ last.op = "new"
  /\ \E loop \in DOMAIN LoopOpeners, rest \in TokSeqs(1) :
       /\ last' = [op |-> "loop", loop |-> loop, toks |-> LoopOpeners[loop] \o rest]
       /\ res' = Parse(last'.toks)
       /\ status' = res'.p.status
  /\ UNCHANGED <<mode, envs, cur, heap, out, prog, vm, lex, imports, builtins, symbol_table>>

NextParse == ParseChain \/ ParseTokens \/ ParseLoop

SpecParse == InitParse /\ [][NextParse]_vars

\* the tree of an operand token, and the trees of the two groupings
OperandTree(t) ==
  IF t.k = "Identifier" THEN Ident(t.s) ELSE Literal(Number(ParseF64(t.s)))

GroupLeft(l) ==
  InfixExpr(InfixExpr(OperandTree(l.x), l.op1, OperandTree(l.y)), l.op2, OperandTree(l.z))

GroupRight(l) ==
  InfixExpr(OperandTree(l.x), l.op1, InfixExpr(OperandTree(l.y), l.op2, OperandTree(l.z)))

ParsedAs(tree) == res.p.status = "ok" /\ res.items = <<StmtExpr(tree)>>

ArithmeticOrComparison ==
  {"Plus", "Minus", "Star", "Slash", "Mod", "Less", "LessEqual", "Greater",
   "GreaterEqual", "EqualEqual", "BangEqual"}

Toks(kinds) == [i \in 1..Len(kinds) |-> T(kinds[i])]

\* name ( args )
CallToks(name, args) == <<TIdent(name), T("LeftParen")>> \o args \o <<T("RightParen")>>

\* fun name ( params ) { body }
FunToks(name, params, body) ==
  <<T("Fun")>> \o CallToks(name, params) \o <<T("LeftBrace")>> \o body \o <<T("RightBrace")>>

\* print e ;
PrintToks(e) == <<T("Print")>> \o e \o <<T("Semicolon")>>

\* var name = e ;
VarToks(name, e) == <<T("Var"), TIdent(name), T("Equal")>> \o e \o <<T("Semicolon")>>

\* return e ;
ReturnToks(e) == <<T("Return")>> \o e \o <<T("Semicolon")>>

Braces(body) == <<T("LeftBrace")>> \o body \o <<T("RightBrace")>>

Parens(e) == <<T("LeftParen")>> \o e \o <<T("RightParen")>>

Num(n) == <<TNumber(CASE n = 0 -> "0" [] n = 1 -> "1" [] n = 2 -> "2" [] n = 3 -> "3"
                      [] OTHER -> "4")>>

\* the statement forms a return can be nested in
Nestings == {"if", "else", "elseif", "block", "while", "for", "forin"}

\* the loop variable of a loop at nesting depth d
LoopVar(d) == IF d = 1 THEN "i" ELSE IF d = 2 THEN "j" ELSE "k"

Nest(how, d, body) ==
  CASE how = "if" -> <<T("If")>> \o Parens(<<T("True")>>) \o Braces(body)
    [] how = "else" ->
         <<T("If")>> \o Parens(<<T("False")>>) \o Braces(<<>>) \o <<T("Else")>> \o Braces(body)
    [] how = "elseif" ->
         <<T("If")>> \o Parens(<<T("False")>>) \o Braces(<<>>)
         \o <<T("Else"), T("If")>> \o Parens(<<T("True")>>) \o Braces(body)
    [] how = "block" -> Braces(body)
    [] how = "while" ->
         VarToks(LoopVar(d), Num(0))
         \o <<T("While")>> \o Parens(<<TIdent(LoopVar(d)), T("Less")>> \o Num(1))
         \o Braces(<<TIdent(LoopVar(d)), T("Equal"), TIdent(LoopVar(d)), T("Plus")>>
                   \o Num(1) \o <<T("Semicolon")>> \o body)
    [] how = "for" ->
         <<T("For"), T("LeftParen")>> \o VarToks(LoopVar(d), Num(0))
         \o <<TIdent(LoopVar(d)), T("Less")>> \o Num(1) \o <<T("Semicolon")>>
         \o <<TIdent(LoopVar(d)), T("Equal"), TIdent(LoopVar(d)), T("Plus")>> \o Num(1)
         \o <<T("RightParen")>> \o Braces(body)
    [] OTHER ->
         <<T("For"), T("LeftParen"), T("Var"), TIdent(LoopVar(d)), T("In")>>
         \o Braces(Num(1) \o <<T("Colon")>> \o Num(1)) \o <<T("RightParen")>> \o Braces(body)

RECURSIVE NestAll(_, _, _)
NestAll(path, d, body) ==
  IF d > Len(path) THEN body ELSE Nest(path[d], d, NestAll(path, d + 1, body))

\* no nesting, one statement form, one statement form inside another
Paths == {<<>>} \cup {<<a>> : a \in Nestings} \cup {<<a, b>> : a, b \in Nestings}

\* fun f() { <return v, nested along path>  print "after"; return 0; }  print f();
ReturnProgram(path, v) ==
  FunToks("f", <<>>,
          NestAll(path, 1, ReturnToks(Num(v)))
          \o PrintToks(<<TString("after")>>) \o ReturnToks(Num(0)))
  \o PrintToks(CallToks("f", <<>>))

ReturnPrograms ==
  {[claim |-> "C1", path |-> path, v |-> v, toks |-> ReturnProgram(path, v)] :
     path \in Paths, v \in 1..MaxVal}

\* class name { body }
ClassToks(name, body) == <<T("Class"), TIdent(name)>> \o Braces(body)

\* new name ( args )
NewToks(name, args) == <<T("New")>> \o CallToks(name, args)

\* callee . method ( args )
MethodToks(callee, method, args) == <<TIdent(callee), T("Dot")>> \o CallToks(method, args)

ExprToks(e) == e \o <<T("Semicolon")>>

\* var x = 0;  <a function, an init or a method with the parameter param and an
\* empty body>  <its call with the argument v, or with no argument>  print x;
\* The call is the statement number call.
CallProgram(form, param, v) ==
  VarToks("x", Num(0))
  \o CASE form = "fun" ->
             FunToks("f", <<TIdent(param)>>, <<>>) \o ExprToks(CallToks("f", Num(v)))
        [] form = "new" ->
             ClassToks("C", FunToks("init", <<TIdent(param)>>, <<>>))
             \o ExprToks(NewToks("C", Num(v)))
        [] form = "new0" ->
             ClassToks("C", FunToks("init", <<TIdent(param)>>, <<>>))
             \o ExprToks(NewToks("C", <<>>))
        [] OTHER ->
             ClassToks("C", FunToks("m", <<TIdent(param)>>, <<>>))
             \o VarToks("c", NewToks("C", <<>>))
             \o ExprToks(MethodToks("c", "m", Num(v)))
  \o PrintToks(<<TIdent("x")>>)

CallPrograms ==
  {[claim |-> "C2", form |-> form, param |-> param, v |-> v,
    call |-> IF form = "method" THEN 4 ELSE 3,
    toks |-> CallProgram(form, param, v)] :
     form \in {"fun", "new", "new0", "method"}, param \in {"x", "y"}, v \in 1..MaxVal}

\* fun make() { var x = v; fun g() { return x; } <x = w;> return g; }
\* var h = make();  print h();
ClosureProgram(v, w) ==
  FunToks("make", <<>>,
          VarToks("x", Num(v))
          \o FunToks("g", <<>>, ReturnToks(<<TIdent("x")>>))
          \o (IF w # v THEN ExprToks(<<TIdent("x"), T("Equal")>> \o Num(w)) ELSE <<>>)
          \o ReturnToks(<<TIdent("g")>>))
  \o VarToks("h", CallToks("make", <<>>))
  \o PrintToks(CallToks("h", <<>>))

ClosurePrograms ==
  {[claim |-> "C4", v |-> v, w |-> w, toks |-> ClosureProgram(v, w)] :
     v \in 1..MaxVal, w \in 1..MaxVal}

\* this . name
ThisDot(name) == <<T("This"), T("Dot"), TIdent(name)>>

\* class C { <var f = 0;> fun init(p) { <this.f = p;> }
\*           fun m(p) { this.f = p; }  fun r() { return this.f; } }
\* var c = new C(v);  <var d = c;>  <c.m(v); or d.m(v);>  print c.f; or print c.r();
\* The write is in init (writer "init"), in m called on c ("method") or in m
\* called on the second reference d ("alias"); the read is c.f ("get") or
\* this.f in a later method ("method").
FieldProgram(declared, writer, reader, v) ==
  ClassToks("C",
    (IF declared THEN VarToks("f", Num(0)) ELSE <<>>)
    \o FunToks("init", <<TIdent("p")>>,
               IF writer = "init"
               THEN ExprToks(ThisDot("f") \o <<T("Equal"), TIdent("p")>>) ELSE <<>>)
    \o FunToks("m", <<TIdent("p")>>, ExprToks(ThisDot("f") \o <<T("Equal"), TIdent("p")>>))
    \o FunToks("r", <<>>, ReturnToks(ThisDot("f"))))
  \o VarToks("c", NewToks("C", Num(v)))
  \o VarToks("d", <<TIdent("c")>>)
  \o (CASE writer = "method" -> ExprToks(MethodToks("c", "m", Num(v)))
         [] writer = "alias" -> ExprToks(MethodToks("d", "m", Num(v)))
         [] OTHER -> <<>>)
  \o PrintToks(IF reader = "get" THEN <<TIdent("c"), T("Dot"), TIdent("f")>>
               ELSE MethodToks("c", "r", <<>>))

FieldPrograms ==
  {[claim |-> "C7", declared |-> declared, writer |-> writer, reader |-> reader, v |-> v,
    toks |-> FieldProgram(declared, writer, reader, v)] :
     declared \in BOOLEAN, writer \in {"init", "method", "alias"},
     reader \in {"get", "method"}, v \in 1..MaxVal}

\* class C { fun init() { this.x = v or 0; }  fun a() { return this.b(); }
\*           fun b() { <this.x = v;> return this.x; } }
\* var c = new C();  print c.b(); or print c.a();
\* b is reached through c.b() (form "obj") or through this.b() (form "this");
\* it reads the field init wrote, or writes the field first.
ThisProgram(form, write, v) ==
  ClassToks("C",
    FunToks("init", <<>>,
            ExprToks(ThisDot("x") \o <<T("Equal")>> \o Num(IF write THEN 0 ELSE v)))
    \o FunToks("a", <<>>, ReturnToks(<<T("This"), T("Dot")>> \o CallToks("b", <<>>)))
    \o FunToks("b", <<>>,
               (IF write THEN ExprToks(ThisDot("x") \o <<T("Equal")>> \o Num(v)) ELSE <<>>)
               \o ReturnToks(ThisDot("x"))))
  \o VarToks("c", NewToks("C", <<>>))
  \o PrintToks(MethodToks("c", IF form = "obj" THEN "b" ELSE "a", <<>>))

ThisPrograms ==
  {[claim |-> "C8", form |-> form, write |-> write, v |-> v,
    toks |-> ThisProgram(form, write, v)] :
     form \in {"obj", "this"}, write \in BOOLEAN, v \in 1..MaxVal}

\* fun name() { print "name"; return v; }
MarkFunToks(name, v) ==
  FunToks(name, <<>>, PrintToks(<<TString(name)>>) \o ReturnToks(Num(v)))

\* case k : print "mark";
CaseToks(k, mark) == <<T("Case")>> \o k \o <<T("Colon")>> \o PrintToks(<<TString(mark)>>)

\* fun d() { print "d"; return dv; }  fun k1() { print "k1"; return a; }
\* fun k2() { print "k2"; return b; }
\* switch (d()) { case k1(): print "b1";  case k2(): print "b2";
\*                <default: print "bd";> }
SwitchProgram(dv, a, b, default) ==
  MarkFunToks("d", dv) \o MarkFunToks("k1", a) \o MarkFunToks("k2", b)
  \o <<T("Switch")>> \o Parens(CallToks("d", <<>>))
  \o Braces(CaseToks(CallToks("k1", <<>>), "b1")
            \o CaseToks(CallToks("k2", <<>>), "b2")
            \o (IF default
                THEN <<T("Default"), T("Colon")>> \o PrintToks(<<TString("bd")>>)
                ELSE <<>>))

SwitchPrograms ==
  {[claim |-> "C9", dv |-> dv, a |-> a, b |-> b, default |-> default,
    toks |-> SwitchProgram(dv, a, b, default)] :
     dv \in 1..MaxVal, a \in 1..MaxVal, b \in 1..MaxVal, default \in BOOLEAN}

KeyKinds == {"Number", "String", "Boolean"}

\* a key of each kind, as it is written
KeyToks(kind) ==
  CASE kind = "Number" -> Num(1) [] kind = "String" -> <<TString("a")>> [] OTHER -> <<T("True")>>

\* h [ index ]
IndexToks(index) == <<TIdent("h"), T("LeftBracket")>> \o index \o <<T("RightBracket")>>

\* var k = <key>;  var h = {<key>: 0}; or var h = {};
\* <h[<key>] = v; or h[k] = v;>  print h[<key>]; or print h[k];
\* made tells how the entry comes to exist: "literal" (the hash literal only),
\* "wlit" or "wvar" (a write with the key as a literal or in the variable k,
\* after the literal if inlit), "none" (no entry).  rvar: the read uses k.
HashProgram(kind, inlit, made, rvar, v) ==
  VarToks("k", KeyToks(kind))
  \o VarToks("h", Braces(IF inlit THEN KeyToks(kind) \o <<T("Colon")>> \o Num(0) ELSE <<>>))
  \o (CASE made = "wlit" ->
             ExprToks(IndexToks(KeyToks(kind)) \o <<T("Equal")>> \o Num(v))
         [] made = "wvar" ->
             ExprToks(IndexToks(<<TIdent("k")>>) \o <<T("Equal")>> \o Num(v))
         [] OTHER -> <<>>)
  \o PrintToks(IndexToks(IF rvar THEN <<TIdent("k")>> ELSE KeyToks(kind)))

HashPrograms ==
  {[claim |-> "C10", kind |-> kind, inlit |-> inlit, made |-> made, rvar |-> rvar, v |-> v,
    toks |-> HashProgram(kind, inlit, made, rvar, v)] :
     kind \in KeyKinds, inlit \in BOOLEAN, made \in {"none", "wlit", "wvar"},
     rvar \in BOOLEAN, v \in 1..MaxVal}

\* A loop of two iterations whose body declares t with var; n counts the
\* iterations.  With probe "next" the body starts with  if (n == 1) { print t; }
\* which reads t at the start of the second iteration; with probe "after"
\* print t;  follows the loop.
\*   var n = 0;  while (n < 2) { <probe>  var t = v;  n = n + 1; }
\*   for (var n = 0; n < 2; n = n + 1) { <probe>  var t = v; }
\*   var n = 0;  for (var k in {"a": 1, "b": 2}) { <probe>  var t = v;  n = n + 1; }
LoopProgram(loop, probe, v) ==
  LET count == <<TIdent("n"), T("Equal"), TIdent("n"), T("Plus")>> \o Num(1)
      body == (IF probe = "next"
               THEN <<T("If")>> \o Parens(<<TIdent("n"), T("EqualEqual")>> \o Num(1))
                    \o Braces(PrintToks(<<TIdent("t")>>))
               ELSE <<>>)
              \o VarToks("t", Num(v))
              \o (IF loop = "for" THEN <<>> ELSE ExprToks(count))
      test == <<TIdent("n"), T("Less")>> \o Num(2)
  IN (CASE loop = "while" ->
             VarToks("n", Num(0)) \o <<T("While")>> \o Parens(test) \o Braces(body)
        [] loop = "for" ->
             <<T("For"), T("LeftParen")>> \o VarToks("n", Num(0)) \o test
             \o <<T("Semicolon")>> \o count \o <<T("RightParen")>> \o Braces(body)
        [] OTHER ->
             VarToks("n", Num(0))
             \o <<T("For"), T("LeftParen"), T("Var"), TIdent("k"), T("In")>>
             \o Braces(<<TString("a"), T("Colon")>> \o Num(1)
                       \o <<T("Comma"), TString("b"), T("Colon")>> \o Num(2))
             \o <<T("RightParen")>> \o Braces(body))
     \o (IF probe = "after" THEN PrintToks(<<TIdent("t")>>) ELSE <<>>)

LoopPrograms ==
  {[claim |-> "C15", loop |-> loop, probe |-> probe, v |-> v,
    toks |-> LoopProgram(loop, probe, v)] :
     loop \in {"while", "for", "forin"}, probe \in {"next", "after"}, v \in 1..MaxVal}

Programs ==
  ReturnPrograms \cup CallPrograms \cup ClosurePrograms \cup FieldPrograms \cup ThisPrograms
  \cup SwitchPrograms \cup HashPrograms \cup LoopPrograms

InitEval ==
  /\ mode = "eval"
  /\ envs = <<EnvNew>>
  /\ cur = 1
  /\ heap = <<>>
  /\ out = <<>>
  /\ \E src \in Programs, output \in BOOLEAN, reverse \in BOOLEAN :
       /\ res = Parse(src.toks)
       /\ prog = [src |-> src, ast |-> res.items, pc |-> 1,
                  output |-> output, reverse |-> reverse]
  /\ status = (IF res.p.errors # <<>> /\ res.p.status = "ok" THEN "exit65"
               ELSE res.p.status)
  /\ last = [op |-> "new"]
  /\ vm = None
  /\ lex = None
  /\ imports = None
  /\ builtins = None
  /\ symbol_table = None

\* one turn of  for stmt in ast { self.evaluate_stmt(&stmt); }
Evaluate ==
  /\ mode \in {"eval", "vm"}
  /\ status = "ok"
  /\ prog.pc <= Len(prog.ast)
  /\ res' = EvaluateStmt([envs |-> envs, cur |-> cur, heap |-> heap, out |-> out,
                          status |-> "ok", output |-> prog.output, fuel |-> MaxFuel,
                          borrowed |-> <<>>, reverse |-> prog.reverse,
                          unbalanced |-> FALSE],
                         prog.ast[prog.pc])
  /\ envs' = res'.st.envs
  /\ cur' = res'.st.cur
  /\ heap' = res'.st.heap
  /\ out' = res'.st.out
  /\ status' = res'.st.status
  /\ prog' = [prog EXCEPT !.pc = prog.pc + 1]
  /\ last' = [op |-> "stmt"]
  /\ UNCHANGED <<mode, vm, lex, imports, builtins, symbol_table>>

NextEval == Evaluate

SpecEval == InitEval /\ [][NextEval]_vars

\* the program has been evaluated to its end
Finished == mode = "eval" /\ status = "ok" /\ prog.pc > Len(prog.ast)

Printed(v) == \E i \in 1..Len(out) : out[i] = v

\* C1: in a function body, return e at any nesting depth (directly, in
\* if / else-if / else, in a block, in a while, for or for-in body) ends the
\* call at once with the value e: the statement after it is not executed and
\* the caller gets e.
C1_ReturnEndsCall ==
  (mode = "eval" /\ prog.src.claim = "C1" /\ prog.pc > Len(prog.ast))
    => /\ status = "ok"
       /\ ~Printed(String("after"))
       /\ out # <<>>
       /\ out[Len(out)] = Number(prog.src.v)

\* C2: when a call of a user function, a method or a constructor has returned,
\* the environment of the caller (its store and its current-class slot) is
\* what it was before the call; the body of the callee is empty here, so no
\* assignment walks outward, and binding the parameter changes no variable of
\* the caller.
C2_CallKeepsCallerEnv ==
  [][(mode = "eval" /\ prog.src.claim = "C2" /\ prog.pc = prog.src.call
      /\ status' = "ok")
       => (cur' = cur /\ envs'[1] = envs[1])]_vars

\* C4: a function value created inside make and called after make has
\* returned reads the local variable x of make, and sees the value assigned
\* to x last (w), not the one x had when the function value was created.
C4_ClosureReadsEnclosingLocal ==
  (mode = "eval" /\ prog.src.claim = "C4" /\ prog.pc > Len(prog.ast))
    => /\ status = "ok"
       /\ out # <<>>
       /\ out[Len(out)] = Number(prog.src.w)

\* C8: the body of a method runs in an environment whose current class is
\* the receiver, whether the method is reached through obj.m(...) or through
\* this.m(...): this.x in the body reads and writes the field of the receiver,
\* so the program prints v.
C8_MethodBodyHasReceiver ==
  (mode = "eval" /\ prog.src.claim = "C8" /\ prog.pc > Len(prog.ast))
    => /\ status = "ok"
       /\ out # <<>>
       /\ out[Len(out)] = Number(prog.src.v)

\* C7: an instance is shared by reference.  After  this.f = v  in init or in
\* a method called as c.m(v) or, through a second reference, as d.m(v), c and
\* d still are the same instance, its field f holds v, and the caller reading
\* c.f and a later method reading this.f both obtain v.
C7_FieldWriteVisible ==
  (mode = "eval" /\ prog.src.claim = "C7" /\ prog.pc > Len(prog.ast))
    => /\ status = "ok"
       /\ envs[1].store["c"] = envs[1].store["d"]
       /\ PairsGet(heap[envs[1].store["c"].fields], 1, "f") = Number(prog.src.v)
       /\ out # <<>>
       /\ \A i \in 1..Len(out) : out[i] = Number(prog.src.v)

\* a field that the class declares with 0 is written through the second
\* reference d and read by the caller as c.f
C7_AliasWriteRead ==
  /\ mode = "eval"
  /\ prog.src.claim = "C7"
  /\ prog.pc > Len(prog.ast)
  /\ prog.src.declared
  /\ prog.src.writer = "alias"
  /\ prog.src.reader = "get"
  /\ status = "ok"
  /\ out = <<Number(prog.src.v)>>

\* the strings printed, in order
Marks == SelectSeq(out, LAMBDA o : o.t = "String")

\* C9: the switch evaluates its discriminant once ("d"), then the case
\* expressions in textual order up to the first that equals it ("k1", "k2"),
\* runs the block of that case and no other block ("b1" or "b2"), and runs
\* the default block ("bd") exactly when no case matched.
C9_SwitchFirstMatchOnly ==
  (mode = "eval" /\ prog.src.claim = "C9" /\ prog.pc > Len(prog.ast))
    => /\ status = "ok"
       /\ Marks = <<String("d"), String("k1")>>
                  \o (IF prog.src.a = prog.src.dv THEN <<String("b1")>>
                      ELSE <<String("k2")>>
                           \o (IF prog.src.b = prog.src.dv THEN <<String("b2")>>
                               ELSE IF prog.src.default THEN <<String("bd")>>
                               ELSE <<>>))

\* the second case matches, the first does not, and there is a default
C9_SecondCaseRuns ==
  /\ mode = "eval"
  /\ prog.src.claim = "C9"
  /\ prog.pc > Len(prog.ast)
  /\ prog.src.default
  /\ prog.src.a # prog.src.dv
  /\ prog.src.b = prog.src.dv
  /\ status = "ok"
  /\ Marks = <<String("d"), String("k1"), String("k2"), String("b2")>>

\* C10: h[k] yields the value last stored under k, by the hash literal
\* {k: 0} or by h[k] = v, and Nil when k has no entry; for a Number, a String
\* and a Boolean key, with the key of the write and of the read written as a
\* literal or held in a variable.
C10_HashRoundTrip ==
  (mode = "eval" /\ prog.src.claim = "C10" /\ prog.pc > Len(prog.ast))
    => /\ status = "ok"
       /\ out = <<IF prog.src.made # "none" THEN Number(prog.src.v)
                  ELSE IF prog.src.inlit THEN Number(0)
                  ELSE Nil>>

(***************************************************************************)
(* SpecVM: a program of the subset that both back ends implement is parsed, *)
(* evaluated statement by statement by the tree-walking evaluator and, from *)
(* the same tree, compiled and run instruction by instruction on the VM.    *)
(***************************************************************************)
\* the expressions of the subset over the global a and the number w
VMExprKinds == {"lit", "var", "add", "sub", "mul", "lt", "gt", "eq", "neg"}

VMExprToks(kind, w) ==
  CASE kind = "lit" -> Num(w)
    [] kind = "var" -> <<TIdent("a")>>
    [] kind = "add" -> <<TIdent("a"), T("Plus")>> \o Num(w)
    [] kind = "sub" -> <<TIdent("a"), T("Minus")>> \o Num(w)
    [] kind = "mul" -> <<TIdent("a"), T("Star")>> \o Num(w)
    [] kind = "lt" -> <<TIdent("a"), T("Less")>> \o Num(w)
    [] kind = "gt" -> <<TIdent("a"), T("Greater")>> \o Num(w)
    [] kind = "eq" -> <<TIdent("a"), T("EqualEqual")>> \o Num(w)
    [] OTHER -> <<T("Minus"), TIdent("a")>>

\* var a = v;  print e1;   or   var a = v;  print e1, e2;
PrintProgram(v, w, e1, e2) ==
  VarToks("a", Num(v))
  \o PrintToks(VMExprToks(e1, w)
               \o (IF e2 = "none" THEN <<>> ELSE <<T("Comma")>> \o VMExprToks(e2, w)))

\* var a = v;  if (a < w) { print 1; } <else if (a == w) { print 2; }> <else { print 3; }>
IfProgram(v, w, elseif, else) ==
  VarToks("a", Num(v))
  \o <<T("If")>> \o Parens(VMExprToks("lt", w)) \o Braces(PrintToks(Num(1)))
  \o (IF elseif
      THEN <<T("Else"), T("If")>> \o Parens(VMExprToks("eq", w)) \o Braces(PrintToks(Num(2)))
      ELSE <<>>)
  \o (IF else THEN <<T("Else")>> \o Braces(PrintToks(Num(3))) ELSE <<>>)
  \o PrintToks(Num(4))

\* var a = v;  a = w;  print a;
AssignProgram(v, w) ==
  VarToks("a", Num(v)) \o ExprToks(<<TIdent("a"), T("Equal")>> \o Num(w))
  \o PrintToks(<<TIdent("a")>>)

\* if (a < 1) { print 1; } <else if (a == 1) { print 2; }> <else if (a == 2)
\* { print 3; }> <else { print 4; }>   over the name a
ChainToks(a, elseifs, else) ==
  <<T("If")>> \o Parens(<<TIdent(a), T("Less")>> \o Num(1)) \o Braces(PrintToks(Num(1)))
  \o (IF elseifs >= 1
      THEN <<T("Else"), T("If")>> \o Parens(<<TIdent(a), T("EqualEqual")>> \o Num(1))
           \o Braces(PrintToks(Num(2)))
      ELSE <<>>)
  \o (IF elseifs >= 2
      THEN <<T("Else"), T("If")>> \o Parens(<<TIdent(a), T("EqualEqual")>> \o Num(2))
           \o Braces(PrintToks(Num(3)))
      ELSE <<>>)
  \o (IF else THEN <<T("Else")>> \o Braces(PrintToks(Num(4))) ELSE <<>>)

\* for (var i = 0; i < v; i = i + 1) { body }
ForToks(v, body) ==
  <<T("For"), T("LeftParen")>> \o VarToks("i", Num(0))
  \o <<TIdent("i"), T("Less")>> \o Num(v) \o <<T("Semicolon")>>
  \o <<TIdent("i"), T("Equal"), TIdent("i"), T("Plus")>> \o Num(1)
  \o <<T("RightParen")>> \o Braces(body)

\* the programs with jumps: a chain, a chain inside a for loop, a chain and a
\* for loop inside a function body, and a chain whose then block declares a
\* function that declares a function
\*   var a = v;  <chain over a>
\*   for (var i = 0; i < v; i = i + 1) { <chain over i> }
\*   fun f(p) { <chain over p>  for (..) { print i; } }
\*   if (true) { fun f() { fun g() { } } } <else { print 4; }>
JumpProgram(shape, v, elseifs, else) ==
  CASE shape = "chain" -> VarToks("a", Num(v)) \o ChainToks("a", elseifs, else)
    [] shape = "for" -> ForToks(v, ChainToks("i", elseifs, else))
    [] shape = "fun" ->
         FunToks("f", <<TIdent("p")>>,
                 ChainToks("p", elseifs, else) \o ForToks(v, PrintToks(<<TIdent("i")>>)))
    [] OTHER ->
         <<T("If")>> \o Parens(<<T("True")>>)
         \o Braces(FunToks("f", <<>>, FunToks("g", <<>>, <<>>)))
         \o (IF else THEN <<T("Else")>> \o Braces(PrintToks(Num(4))) ELSE <<>>)

JumpPrograms ==
  {[claim |-> "C16", shape |-> shape, v |-> v, elseifs |-> elseifs, else |-> else,
    toks |-> JumpProgram(shape, v, elseifs, else)] :
     shape \in {"chain", "for", "fun"}, v \in 0..MaxVal, elseifs \in 0..2,
     else \in BOOLEAN}
  \cup
  {[claim |-> "C16", shape |-> "nested", v |-> v, elseifs |-> 0, else |-> else,
    toks |-> JumpProgram("nested", v, 0, else)] : v \in {0}, else \in BOOLEAN}

\* a chain whose conditions overlap: with a = 1 both are true
\*   var a = v;  if (a < 2) { print 1; } <else if (a < 3) { print 2; }>
\*   <else { print 3; }>  print 4;
OverlapProgram(v, elseif, else) ==
  VarToks("a", Num(v))
  \o <<T("If")>> \o Parens(<<TIdent("a"), T("Less")>> \o Num(2)) \o Braces(PrintToks(Num(1)))
  \o (IF elseif
      THEN <<T("Else"), T("If")>> \o Parens(<<TIdent("a"), T("Less")>> \o Num(3))
           \o Braces(PrintToks(Num(2)))
      ELSE <<>>)
  \o (IF else THEN <<T("Else")>> \o Braces(PrintToks(Num(3))) ELSE <<>>)
  \o PrintToks(Num(4))

OverlapPrograms ==
  {[claim |-> "C17", v |-> v, elseif |-> elseif, else |-> else,
    toks |-> OverlapProgram(v, elseif, else)] :
     v \in 1..3, elseif \in BOOLEAN, else \in BOOLEAN}

\* a function with params parameters and locals var declarations, declared
\* after globals global variables
\*   <var g1 = 0;> <var g2 = 0;>  fun f(<p1> <, p2>) { <var t1 = 0;> <var t2 = 0;> }
LocalsProgram(globals, params, locals) ==
  (IF globals >= 1 THEN VarToks("g1", Num(0)) ELSE <<>>)
  \o (IF globals >= 2 THEN VarToks("g2", Num(0)) ELSE <<>>)
  \o FunToks("f",
             (IF params >= 1 THEN <<TIdent("p1")>> ELSE <<>>)
             \o (IF params >= 2 THEN <<T("Comma"), TIdent("p2")>> ELSE <<>>),
             (IF locals >= 1 THEN VarToks("t1", Num(0)) ELSE <<>>)
             \o (IF locals >= 2 THEN VarToks("t2", Num(0)) ELSE <<>>))

LocalsPrograms ==
  {[claim |-> "C18", globals |-> globals, params |-> params, vars |-> locals,
    toks |-> LocalsProgram(globals, params, locals)] :
     globals \in 0..2, params \in 0..2, locals \in 0..2}

\* an assignment to a global, and to a local of a function
\*   var a = v;  a = w;  print a;
\*   fun f() { var a = v;  a = w;  print a; }
StoreProgram(scope, v, w) ==
  IF scope = "Global" THEN AssignProgram(v, w) ELSE FunToks("f", <<>>, AssignProgram(v, w))

StorePrograms ==
  {[claim |-> "C19", scope |-> scope, v |-> v, w |-> w, toks |-> StoreProgram(scope, v, w)] :
     scope \in {"Global", "Local"}, v \in 1..MaxVal, w \in 1..MaxVal}

\* a call of a built-in with zero to two arguments, the first one a number or
\* a global variable:   <var a = v;>  f(<v | a><, w>);
BuiltinCallProgram(f, n, v, w, global) ==
  (IF global THEN VarToks("a", Num(v)) ELSE <<>>)
  \o ExprToks(CallToks(f, (IF n = 0 THEN <<>> ELSE IF global THEN <<TIdent("a")>> ELSE Num(v))
                          \o (IF n = 2 THEN <<T("Comma")>> \o Num(w) ELSE <<>>)))

BuiltinCallPrograms ==
  {[claim |-> "C21", f |-> f, n |-> n, v |-> v, w |-> w, global |-> global,
    toks |-> BuiltinCallProgram(f, n, v, w, global)] :
     f \in {"println", "len"}, n \in 0..2, v \in 1..MaxVal, w \in 1..MaxVal,
     global \in BOOLEAN}

\* an assert, with or without a message, after zero or one declaration and
\* before a print:   <var a = v;>  assert <a < w | true | false | w> <, "no">;  print 4;
AssertProgram(cond, v, w, message) ==
  (IF cond = "less" THEN VarToks("a", Num(v)) ELSE <<>>)
  \o <<T("Assert")>>
  \o (CASE cond = "less" -> <<TIdent("a"), T("Less")>> \o Num(w)
        [] cond = "true" -> <<T("True")>>
        [] cond = "false" -> <<T("False")>>
        [] OTHER -> Num(w))
  \o (IF message THEN <<T("Comma"), TString("no")>> ELSE <<>>)
  \o <<T("Semicolon")>>
  \o PrintToks(Num(4))

AssertPrograms ==
  {[claim |-> "assert", cond |-> cond, v |-> v, w |-> w, message |-> message,
    toks |-> AssertProgram(cond, v, w, message)] :
     cond \in {"less", "true", "false", "number"}, v \in 1..MaxVal, w \in 1..MaxVal,
     message \in BOOLEAN}

\* function declarations nested depth deep, after globals global variables,
\* the outermost one with locals declarations before the nested one:
\*   <var g1 = 0;> <var g2 = 0;>  fun f() { <var t1 = 0;>  fun g() { fun h() { } } }
\* (depth 0: the global variables alone)
NestedProgram(depth, globals, locals) ==
  (IF globals >= 1 THEN VarToks("g1", Num(0)) ELSE <<>>)
  \o (IF globals >= 2 THEN VarToks("g2", Num(0)) ELSE <<>>)
  \o (IF depth = 0 THEN <<>>
      ELSE FunToks("f", <<>>,
             (IF locals >= 1 THEN VarToks("t1", Num(0)) ELSE <<>>)
             \o (IF depth < 2 THEN <<>>
                 ELSE FunToks("g", <<>>,
                        IF depth < 3 THEN <<>> ELSE FunToks("h", <<>>, <<>>)))))

NestedPrograms ==
  {[claim |-> "C25", depth |-> depth, globals |-> globals, vars |-> locals,
    toks |-> NestedProgram(depth, globals, locals)] :
     depth \in 1..3, globals \in 0..2, locals \in 0..1}

\* a name read or written at the top level and inside a function f, as a
\* plain reference, a call callee, a parameter, a var declaration or a
\* compound assignment, and a local of f read in a nested function
AccessBody(form) ==
  CASE form = "reference" -> VarToks("a", Num(1)) \o ExprToks(<<TIdent("a")>>)
    [] form = "callee" -> FunToks("g", <<>>, <<>>) \o ExprToks(CallToks("g", <<>>))
    [] form = "builtin" -> ExprToks(CallToks("len", <<>>))
    [] form = "parameter" -> FunToks("g", <<TIdent("p")>>, ExprToks(<<TIdent("p")>>))
    [] form = "var" -> VarToks("a", Num(1))
    [] form = "compound" ->
         VarToks("a", Num(1)) \o ExprToks(<<TIdent("a"), T("PlusSelf")>> \o Num(1))
    [] OTHER -> VarToks("a", Num(1)) \o FunToks("g", <<>>, ExprToks(<<TIdent("a")>>))

AccessProgram(form, local) ==
  IF local THEN FunToks("f", <<>>, AccessBody(form)) ELSE AccessBody(form)

AccessPrograms ==
  {[claim |-> "C26", form |-> form, local |-> local, toks |-> AccessProgram(form, local)] :
     form \in {"reference", "callee", "builtin", "parameter", "var", "compound", "free"},
     local \in BOOLEAN}

VMPrograms ==
  {[claim |-> "C6", form |-> "print", v |-> v, w |-> w, e1 |-> e1, e2 |-> e2,
    toks |-> PrintProgram(v, w, e1, e2)] :
     v \in 1..MaxVal, w \in 1..MaxVal, e1 \in VMExprKinds,
     e2 \in VMExprKinds \cup {"none"}}
  \cup
  {[claim |-> "C6", form |-> "if", v |-> v, w |-> w, elseif |-> elseif, else |-> else,
    toks |-> IfProgram(v, w, elseif, else)] :
     v \in 1..MaxVal, w \in 1..MaxVal, elseif \in BOOLEAN, else \in BOOLEAN}
  \cup
  {[claim |-> "C6", form |-> "assign", v |-> v, w |-> w, toks |-> AssignProgram(v, w)] :
     v \in 1..MaxVal, w \in 1..MaxVal}
  \cup JumpPrograms \cup OverlapPrograms \cup LocalsPrograms \cup StorePrograms
  \cup BuiltinCallPrograms \cup AssertPrograms \cup NestedPrograms \cup AccessPrograms

\* Compiler::compile
Compile(program) == CompileStmts(CompilerNew, program, 1)

\* compile, VM::new on the instructions, define_constants
TestVmCode(program) ==
  Bind(Compile(program), LAMBDA c :
    [RunStart(VMNew(Len(c.instructions), c.instructions, c.constants))
       EXCEPT !.status = c.status])

InitVM ==
  /\ mode = "vm"
  /\ envs = <<EnvNew>>
  /\ cur = 1
  /\ heap = <<>>
  /\ out = <<>>
  /\ \E src \in VMPrograms, output \in BOOLEAN :
       /\ res = Parse(src.toks)
       /\ prog = [src |-> src, ast |-> res.items, pc |-> 1,
                  output |-> output, reverse |-> FALSE]
  /\ status = (IF res.p.errors # <<>> /\ res.p.status = "ok" THEN "exit65"
               ELSE res.p.status)
  /\ vm = TestVmCode(res.items)
  /\ lex = None
  /\ imports = None
  /\ builtins = None
  /\ symbol_table = None
  /\ last = [op |-> "new"]

\* the VM is followed while its stack holds at most MaxStack values: a loop
\* whose step leaves values on the stack is cut off there
MaxStack == 6

\* the instruction at ip is a Closure that puts a frame on the call stack
Starts(m) ==
  /\ m.ip < Len(m.instructions)
  /\ m.instructions[m.ip + 1].op = "Closure"
  /\ Execute(m, m.instructions[m.ip + 1]).call_stack # <<>>

\* one turn of the loop of VM::run
Run ==
  /\ mode \in {"vm", "frames"}
  /\ vm.status = "ok"
  /\ vm.running
  /\ Len(vm.stack) <= MaxStack
  /\ vm' \in RunTurn(vm)
  /\ last' = [op |-> "execute", started |-> Starts(vm)]
  /\ UNCHANGED <<mode, envs, cur, heap, out, status, prog, res, lex, imports, builtins, symbol_table>>

NextVM == Evaluate \/ Run

SpecVM == InitVM /\ [][NextVM]_vars

\* both back ends have run the program to its end, or have ended the process
BothDone ==
  /\ mode = "vm"
  /\ status # "ok" \/ prog.pc > Len(prog.ast)
  /\ vm.status # "ok" \/ ~vm.running

\* C6: for every program that uses only what both back ends implement
\* (literals, arithmetic, comparison, global variables, if / else, print),
\* the sequence of values the evaluator writes to standard output equals the
\* sequence the VM writes when it runs the compiled program; print e1, ..., en
\* writes the values of e1 .. en from left to right in both.
C6_EvaluatorVMAgree ==
  (BothDone /\ prog.src.claim = "C6")
    => /\ status = "ok"
       /\ vm.status = "ok"
       /\ out = vm.out

\* C11: whenever a syntactic expectation fails, on any token sequence, the
\* parser records a diagnostic in the error list and parse() returns the
\* statements accepted before the failing one; it neither panics nor ends
\* the process.
C11_ParserRecordsAndReturns ==
  (mode = "parse" /\ last.op = "tokens")
    => /\ status = "ok"
       /\ Cur(last.toks, res.p).k # "Eof" => res.p.errors # <<>>

\* C28: parse() ends on every token sequence: no loop of the parser repeats
\* without consuming a token
C28_ParseTerminates ==
  (mode = "parse" /\ last.op \in {"tokens", "chain", "loop"}) => status # "hang"

(***************************************************************************)
(* SpecLex: the lexer on every source text of up to MaxSrc characters over  *)
(* a small alphabet; each step is one call of next(), and the calls go on   *)
(* after the input is exhausted.                                            *)
(***************************************************************************)
MaxSrc == 3

SrcAlphabet == {"\"", "\\", "n", "i", "@", "\n", "=", "1"}

Sources == UNION {[1..m -> SrcAlphabet] : m \in 0..MaxSrc}

InitLex ==
  /\ mode = "lex"
  /\ envs = <<>>
  /\ cur = 0
  /\ heap = <<>>
  /\ out = <<>>
  /\ status = "ok"
  /\ prog = <<>>
  /\ last = [op |-> "new"]
  /\ res = None
  /\ vm = None
  /\ \E src \in Sources : lex = LexingNew(src)
  /\ imports = None
  /\ builtins = None
  /\ symbol_table = None

\* one call of next(); out collects the tokens it has returned
LexDoNext ==
  /\ mode = "lex"
  /\ status = "ok"
  /\ Len(out) < Len(lex.input) + 2
  /\ res' = LexNext(lex)
  /\ lex' = res'.lx
  /\ status' = res'.lx.status
  /\ out' = IF res'.tok = None THEN out ELSE Append(out, res'.tok)
  /\ last' = [op |-> "next", exhausted |-> lex.position >= Len(lex.input)]
  /\ UNCHANGED <<mode, envs, cur, heap, prog, vm, imports, builtins, symbol_table>>

NextLex == LexDoNext

SpecLex == InitLex /\ [][NextLex]_vars

\* the number of line ends in the source
Newlines(input) == Cardinality({i \in 1..Len(input) : input[i] = "\n"})

\* C12: the lexer never raises: every call of next() returns a token without
\* panicking, every lexical problem is in the errors list with its 1-based
\* line number, and once the input is exhausted next() returns Eof on every
\* further call.
C12_LexerNeverRaises ==
  mode = "lex"
    => /\ status = "ok"
       /\ \A e \in 1..Len(lex.errors) :
            lex.errors[e].line \in 1..(Newlines(lex.input) + 1)
       /\ (last.op = "next" /\ last.exhausted) => res.tok = EofTok

(***************************************************************************)
(* SpecImports: load() on a directory of three files.  a.lox and b.lox      *)
(* import at most one file each (any of the three, themselves included),    *)
(* c.lox imports nothing, and the program handed in imports up to           *)
(* MaxImports files, repeats allowed.  Every file ends with one statement   *)
(* of its own.  load() is called up to twice on the same loader.            *)
(***************************************************************************)
MaxImports == 2

FileNames == {"a", "b", "c"}

\* the statement that stands for the body of a file
Body(name) == StmtExpr(Ident(name))

ImportLists(n) == UNION {[1..m -> FileNames] : m \in 0..n}

FileProgram(names, name) ==
  [i \in 1..Len(names) |-> StmtImport(names[i])] \o <<Body(name)>>

\* the orders in which a HashMap with the keys of cache can hand them out
Orders(cache) ==
  {order \in UNION {[1..m -> DOMAIN cache] : m \in {Cardinality(DOMAIN cache)}} :
     \A i, j \in 1..Len(order) : i # j => order[i] # order[j]}

InitImports ==
  /\ mode = "imports"
  /\ envs = <<>>
  /\ cur = 0
  /\ heap = <<>>
  /\ out = <<>>
  /\ status = "ok"
  /\ prog = <<>>
  /\ last = [op |-> "new", loads |-> 0]
  /\ res = None
  /\ vm = None
  /\ lex = None
  /\ builtins = None
  /\ symbol_table = None
  /\ \E main \in ImportLists(MaxImports), a \in ImportLists(1), b \in ImportLists(1) :
       imports = ImportsNew(FileProgram(main, "main"),
                            ("a.lox" :> FileProgram(a, "a"))
                            @@ ("b.lox" :> FileProgram(b, "b"))
                            @@ ("c.lox" :> FileProgram(<<>>, "c")))

\* the orders the cache can be handed out in once load_all has filled it
LoadOrders(im) ==
  Bind(LoadAll(im, im.program, 0), LAMBDA r :
    IF r.status # "ok" THEN {<<>>}
    ELSE Orders(IF r.progs = None THEN im.imports ELSE r.progs @@ im.imports))

\* one call of load()
ImportsLoad ==
  /\ mode = "imports"
  /\ status = "ok"
  /\ last.loads < 2
  /\ \E order \in LoadOrders(imports) : res' = Load(imports, order)
  /\ imports' = res'.im
  /\ status' = res'.status
  /\ last' = [op |-> "load", loads |-> last.loads + 1]
  /\ UNCHANGED <<mode, envs, cur, heap, out, prog, vm, lex, builtins, symbol_table>>

NextImports == ImportsLoad

SpecImports == InitImports /\ [][NextImports]_vars

\* the files a program imports, and the files reached from the program
ImportedBy(program) ==
  {program[i].s : i \in {j \in 1..Len(program) : program[j].k = "Import"}}

RECURSIVE Reached(_)
Reached(names) ==
  LET more == names \cup UNION {ImportedBy(imports.files[f \o ".lox"]) : f \in names}
  IN IF more = names THEN names ELSE Reached(more)

Occurrences(stmt, program) == Cardinality({i \in 1..Len(program) : program[i] = stmt})

Position(stmt, program) == CHOOSE i \in 1..Len(program) : program[i] = stmt

\* C13: load() handles every imported file once: a file imported twice,
\* reached through a diamond or through a cycle of imports is skipped the
\* second time, so load() ends on every import graph and the program it
\* returns holds the statements of every imported file exactly once.
C13_EachFileLoadedOnce ==
  (mode = "imports" /\ last.op = "load")
    => /\ status = "ok"
       /\ \A f \in Reached(ImportedBy(imports.program)) :
            Occurrences(Body(f), res.progs) = 1

\* C14: in the program load() returns, the statements of all imported files
\* come before the statements of the original program, and every file's own
\* imports come before that file.
C14_DependenciesFirst ==
  (mode = "imports" /\ last.op = "load" /\ status = "ok")
    => /\ Len(res.progs) >= Len(imports.program)
       /\ SubSeq(res.progs, Len(res.progs) - Len(imports.program) + 1, Len(res.progs))
            = imports.program
       /\ \A f \in Reached(ImportedBy(imports.program)) :
            \A g \in ImportedBy(imports.files[f \o ".lox"]) :
              Position(Body(g), res.progs) < Position(Body(f), res.progs)

\* C15: every iteration of a while, for or for-in loop runs its body in a
\* fresh child environment: a variable the body declares with var is not
\* bound at the start of the next iteration and not bound in the enclosing
\* environment after the loop, so reading it there is the error of an
\* undefined variable and never yields the value of the earlier iteration.
C15_LoopBodyFreshEnv ==
  (mode = "eval" /\ prog.src.claim = "C15" /\ (status # "ok" \/ prog.pc > Len(prog.ast)))
    => /\ status = "exit70"
       /\ ~Printed(Number(prog.src.v))

\* every instruction vector that compile() has emitted: the main program and
\* the body of every CompiledFunction constant
Emitted(m) ==
  {m.instructions}
  \cup {m.constants[i].instructions :
          i \in {j \in 1..Len(m.constants) : m.constants[j].t = "CompiledFunction"}}

\* the program has been compiled, compile() has returned, and the VM has not
\* executed an instruction yet
Compiled(claim) ==
  mode = "vm" /\ prog.src.claim = claim /\ last.op = "new" /\ vm.status = "ok"

\* C16: after compile() finishes, every Jump(p) and JumpIfFalse(p) in any
\* emitted instruction vector (the main program or a function body) has
\* 0 <= p <= the length of that vector, and no placeholder target (0 for
\* JumpIfFalse, 9999 for Jump) is left: a JumpIfFalse leads forward, past
\* itself.
C16_JumpTargetsPatched ==
  Compiled("C16")
    => \A ins \in Emitted(vm) : \A i \in 1..Len(ins) :
         /\ ins[i].op \in {"Jump", "JumpIfFalse"} => ins[i].arg \in 0..Len(ins)
         /\ ins[i].op = "JumpIfFalse" => ins[i].arg > i - 1
         /\ ins[i].op = "Jump" => ins[i].arg # 9999

\* a function body with a patched chain and a loop has been emitted: it holds
\* a Jump to its own end, a Jump backwards and a JumpIfFalse
C16_FunctionBodyWithJumps ==
  /\ Compiled("C16")
  /\ \E ins \in Emitted(vm) \ {vm.instructions} :
       /\ \E i \in 1..Len(ins) : ins[i].op = "Jump" /\ ins[i].arg < i - 1
       /\ \E i \in 1..Len(ins) : ins[i].op = "Jump" /\ ins[i].arg > i - 1
       /\ \E i \in 1..Len(ins) : ins[i].op = "JumpIfFalse"

\* run() has returned or the process has ended
VMDone == mode = "vm" /\ (vm.status # "ok" \/ ~vm.running)

\* C17: in the bytecode of an if / else-if / else chain, with or without a
\* final else, the VM executes the body of at most one branch, the first
\* whose condition is not false, and then continues at the end of the chain
\* without evaluating a later condition: the chain over a = v prints the
\* number of that one branch, or nothing, and the statement after it prints 4.
C17_OneBranchOnly ==
  (VMDone /\ prog.src.claim = "C17")
    => /\ vm.status = "ok"
       /\ vm.out = (IF prog.src.v < 2 THEN <<Number(1)>>
                    ELSE IF prog.src.elseif /\ prog.src.v < 3 THEN <<Number(2)>>
                    ELSE IF prog.src.else THEN <<Number(3)>>
                    ELSE <<>>) \o <<Number(4)>>

\* C18: for every compiled function declaration, the num_locals stored in its
\* CompiledFunction constant equals the number of definitions (parameters
\* plus var declarations) entered in the function's own scope, whatever the
\* number of names the enclosing scope has defined.
C18_NumLocalsOwnScope ==
  Compiled("C18")
    => \A i \in 1..Len(vm.constants) :
         vm.constants[i].t = "CompiledFunction"
           => vm.constants[i].num_locals = prog.src.params + prog.src.vars

\* the vector holds, after the declaration of the variable, the code of the
\* literal with the value w followed at once by the instruction store
StoresAfter(m, ins, w, store) ==
  \E i \in 3..(Len(ins) - 1) :
    /\ ins[i].op = "LoadConstant"
    /\ ins[i].arg < Len(m.constants)
    /\ m.constants[ins[i].arg + 1] = Number(w)
    /\ ins[i + 1] = store

\* C19: for an assignment x = e where x resolves to a global (respectively
\* local) symbol with index i, the compiler emits the code of e followed by
\* SetGlobal(i) (respectively SetLocal(i)), so that once the VM has executed
\* the assignment a read of x yields the value of e: var a = v; a = w;
\* print a;  at top level prints w.
C19_AssignmentStores ==
  /\ (Compiled("C19") /\ prog.src.scope = "Global")
       => StoresAfter(vm, vm.instructions, prog.src.w, Opcode("SetGlobal", 0))
  /\ (Compiled("C19") /\ prog.src.scope = "Local")
       => \E ins \in Emitted(vm) \ {vm.instructions} :
            StoresAfter(vm, ins, prog.src.w, Opcode("SetLocal", 0))
  /\ (VMDone /\ prog.src.claim = "C19" /\ prog.src.scope = "Global")
       => vm.status = "ok" /\ vm.out = <<Number(prog.src.w)>>

(***************************************************************************)
(* SpecFrames: VM::run on images in which a function can be entered.  The   *)
(* compiler stores the function under the index of its name after the       *)
(* Closure instruction, and Closure reads globals[index of the constant],   *)
(* so in a compiled program Closure finds no function; the images are what  *)
(* VM::new and define_constants accept: a main program that stores the      *)
(* function object in globals[0], enters it with Closure(0, 0) and then     *)
(* prints 9, followed by the body of the function.  The loop of run() is    *)
(* taken to go on for as long as it has an instruction to execute.          *)
(***************************************************************************)
\* the body of the function: it ends by ReturnValue, by Return, by reaching
\* the end of its range after a print, or it is empty
FrameBody(body) ==
  CASE body = "value" -> <<Opcode("LoadConstant", 2), Opcode("ReturnValue", 0)>>
    [] body = "return" -> <<Opcode("LoadConstant", 2), Opcode("Return", 0)>>
    [] body = "end" -> <<Opcode("LoadConstant", 2), Opcode("Print", 1)>>
    [] OTHER -> <<>>

FrameMain ==
  <<Opcode("LoadConstant", 0), Opcode("SetGlobal", 0), Opcode("Closure", <<0, 0>>),
    Opcode("LoadConstant", 1), Opcode("Print", 1)>>

FramePrograms ==
  {[claim |-> "C20", kind |-> "image", body |-> body, v |-> v, toks |-> <<>>] :
     body \in {"value", "return", "end", "empty"}, v \in 1..MaxVal}
  \cup
  {[claim |-> "C20", kind |-> "compiled", body |-> body, v |-> v,
    toks |-> FunToks("f", <<>>, IF body = "value" THEN ReturnToks(Num(v)) ELSE <<>>)
             \o PrintToks(Num(4))] :
     body \in {"value", "empty"}, v \in 1..MaxVal}

InitFrames ==
  /\ mode = "frames"
  /\ envs = <<EnvNew>>
  /\ cur = 1
  /\ heap = <<>>
  /\ out = <<>>
  /\ status = "ok"
  /\ \E src \in FramePrograms :
       /\ res = Parse(src.toks)
       /\ prog = [src |-> src, ast |-> res.items, pc |-> 1, output |-> FALSE,
                  reverse |-> FALSE]
       /\ vm = IF src.kind = "image"
               THEN RunStart(VMNew(Len(FrameMain), FrameMain \o FrameBody(src.body),
                                   <<FunctionRange(0, Len(FrameBody(src.body))),
                                     Number(9), Number(src.v)>>))
               ELSE TestVmCode(res.items)
  /\ lex = None
  /\ imports = None
  /\ builtins = None
  /\ symbol_table = None
  /\ last = [op |-> "new", started |-> FALSE]

NextFrames == Run

SpecFrames == InitFrames /\ [][NextFrames]_vars /\ WF_vars(Run)

\* the caller has executed the instructions after the call site: it has
\* printed 9
Resumed == \E i \in 1..Len(vm.out) : vm.out[i] = Number(9)

\* C20: when a function frame started by Closure finishes (by ReturnValue,
\* Return or by reaching the end of its instruction range), the VM restores
\* the caller's frame and resumes at the instruction after the call site, so
\* that every instruction of the caller that follows the call is eventually
\* executed: once Closure has started a frame, the caller's print after the
\* call is eventually executed.
C20_CallerResumes ==
  (mode = "frames" /\ last.op = "execute" /\ last.started) ~> Resumed

\* the arguments of the call of a program of the C21 family, as values
CallArgs(src) ==
  IF src.n = 0 THEN <<>>
  ELSE IF src.n = 1 THEN <<Number(src.v)>>
  ELSE <<Number(src.v), Number(src.w)>>

\* C21: the code of a built-in call f(a1, ..., an) is GetBuiltin(i), the code
\* of the arguments, Call(n) with i the index of f; the VM calls f once, with
\* the values a1, ..., an in this order, and leaves neither the callee nor an
\* argument on the stack
C21_BuiltinCalled ==
  (mode = "vm" /\ prog.src.claim = "C21") =>
    /\ last.op = "new" =>
         /\ vm.status = "ok"
         /\ \E k \in 0..2 :
              /\ Len(vm.instructions) = k + prog.src.n + 2
              /\ vm.instructions[k + 1] =
                   Opcode("GetBuiltin", GetIndex(BuiltinsNew(NewBuiltins), prog.src.f)[1])
              /\ vm.instructions[Len(vm.instructions)] = Opcode("Call", prog.src.n)
    /\ VMDone =>
         /\ vm.status = "ok"
         /\ vm.calls = <<[name |-> prog.src.f, args |-> CallArgs(prog.src)]>>
         /\ vm.stack = <<>>


\* the position of the Assert in the code of a program of the assert family
AssertAt(m) == CHOOSE i \in 0..(Len(m.instructions) - 1) : m.instructions[i + 1].op = "Assert"

\* the condition of the assert of a program of the assert family is false
AssertFails(src) == src.cond = "false" \/ (src.cond = "less" /\ ~(src.v < src.w))

\* C22: when the condition of `assert cond, "msg"` is false the VM runs the
\* message path, which writes msg and ends the process with exit code 3; when
\* it is not false, no instruction of the message path (the three
\* instructions after the Assert) is executed
C22_AssertMessagePath ==
  (mode = "vm" /\ prog.src.claim = "assert" /\ prog.src.message /\ last.op = "execute") =>
    IF AssertFails(prog.src)
    THEN VMDone => (vm.status = "exit" /\ vm.code = 3 /\ vm.out = <<String("no")>>)
    ELSE /\ vm.status \notin {"exit", "panic"}
         /\ vm.running => vm.ip \notin (AssertAt(vm) + 1)..(AssertAt(vm) + 3)
         /\ String("no") \notin {vm.out[i] : i \in 1..Len(vm.out)}

\* C24: the operand of every emitted Assert is the index of the first
\* instruction after the code of the assert (one past the Assert without a
\* message, four past it with one), and after a passing assert the VM goes on
\* with the next statement
C24_AssertTargetAfter ==
  (mode = "vm" /\ prog.src.claim = "assert") =>
    /\ vm.status # "unmodelled"
    /\ vm.instructions[AssertAt(vm) + 1].arg =
         AssertAt(vm) + (IF prog.src.message THEN 4 ELSE 1)
    /\ (VMDone /\ ~AssertFails(prog.src)) => (vm.status = "ok" /\ vm.out = <<Number(4)>>)
    /\ (last.op = "execute" /\ ~AssertFails(prog.src) /\ vm.running) => vm.ip > 0

\* the vector is the enclosing vector as it was at enter_scope followed by
\* the three instructions of the declaration
DeclarationAppended(vector, enclosing) ==
  /\ Len(vector) = Len(enclosing) + 3
  /\ SubSeq(vector, 1, Len(enclosing)) = enclosing
  /\ vector[Len(vector) - 2].op = "LoadConstant"
  /\ vector[Len(vector) - 1].op = "Closure"
  /\ vector[Len(vector)].op = "SetGlobal"

\* the vector of the last function constant (the outermost declaration)
OutermostBody(c) == c.constants[Len(c.constants)].instructions

\* C25: after the declaration of a function, at every nesting depth, the
\* current vector is the enclosing vector as it was at enter_scope plus the
\* LoadConstant, Closure and set instruction of the declaration, and the
\* current symbol table is the enclosing table again: for the program this
\* holds of the main vector and the global table, and for a function that
\* declares a function of the vector of its body
C25_EnclosingScopeRestored ==
  Compiled("C25") =>
    Bind(Compile(Parse(NestedProgram(0, prog.src.globals, 0)).items), LAMBDA before :
    Bind(Compile(Parse(NestedProgram(1, prog.src.globals, prog.src.vars)).items), LAMBDA inner :
    Bind(Compile(prog.ast), LAMBDA c :
      /\ DeclarationAppended(c.instructions, before.instructions)
      /\ c.symbols = Define(before, "f").symbols
      /\ prog.src.depth >= 2 => DeclarationAppended(OutermostBody(c), OutermostBody(inner)))))

\* the opcodes of the storage class of a symbol
ClassOpcodes(scope) ==
  CASE scope = "Global" -> {"GetGlobal", "SetGlobal"}
    [] scope = "Local" -> {"GetLocal", "SetLocal"}
    [] scope = "Free" -> {"GetFree"}
    [] scope = "Builtin" -> {"GetBuiltin"}
    [] OTHER -> {"CurrentClosure"}

\* C26: every opcode emitted to read or write a name is one of the storage
\* class of the symbol the name resolved to (or was defined as) and carries the
\* index of that symbol
C26_OpcodeOfStorageClass ==
  Compiled("C26") =>
    Bind(Compile(prog.ast).accesses, LAMBDA accesses :
      \A i \in 1..Len(accesses) :
        /\ accesses[i].op.op \in ClassOpcodes(accesses[i].symbol.scope)
        /\ accesses[i].op.arg = accesses[i].symbol.index)

\* C29: the environment cursor is balanced.  Every evaluate_stmt and
\* evaluate_expr that has completed, at the top level or inside a block, a
\* loop, a function call, a method call or a constructor call, and whether it
\* completed normally or by handing a return value outwards, left self.envs at
\* the node it found it at; so between the statements of the program the
\* cursor is at the global environment.
C29_CursorBalanced ==
  (mode = "eval" /\ last.op = "stmt")
    => (~res.st.unbalanced /\ (status = "ok" => cur = 1 /\ Len(envs) = 1))

\* print f(); has completed where f returns v from a while loop inside a
\* block, and the value came out through loop, block and call
C29_ReturnPropagated ==
  /\ mode = "eval" /\ last.op = "stmt" /\ status = "ok"
  /\ prog.src.claim = "C1" /\ prog.src.path = <<"block", "while">>
  /\ prog.pc = 3
  /\ out = <<Number(prog.src.v)>>
  /\ cur = 1

\* the number of values the instruction takes off the stack of m by pop, by
\* the argument split of Call or by the free-variable split of Closure
Removes(m, instruction) ==
  LET op == instruction.op
      arg == instruction.arg
  IN CASE op \in {"Add", "Divide", "Minus", "Multiply", "Mod", "LessThan", "EqualEqual",
                  "GreaterThan"} -> 2
       [] op \in {"ReturnValue", "Return", "JumpIfFalse", "Pop", "Abs", "Nagetive",
                  "Assert", "SetGlobal"} -> 1
       [] op = "Print" -> arg
       [] op = "Call" ->
            IF m.stack # <<>> /\ m.stack[Len(m.stack)].t = "Builtin" THEN 1 + arg ELSE 1
       [] op = "Closure" -> arg[2]
       [] OTHER -> 0

\* run() is about to execute an instruction that removes more values than
\* the stack holds
Underflows(m) ==
  /\ m.status = "ok" /\ m.running
  /\ m.ip < Len(m.instructions)
  /\ Removes(m, m.instructions[m.ip + 1]) > Len(m.stack)

\* C30: between the instructions of the VM the stack pointer is the number
\* of values on the stack, and no instruction is attempted that removes, by
\* pop, by the argument split of Call(n) or by the free-variable split of
\* Closure(i, k), more values than the stack holds.
C30_StackPointerInStep ==
  mode = "vm" => (vm.sp = Len(vm.stack) /\ ~Underflows(vm))

(***************************************************************************)
(* SpecSymbols: the symbol tables as the compiler uses them.  From the      *)
(* global table, names are defined, a table is enclosed in a new one        *)
(* (enter_scope), the enclosing table is taken back (leave_scope) and names *)
(* are resolved in the current table.                                       *)
(***************************************************************************)
MaxScopes == 4

MaxDefinitions == 2

SymbolNames == {"x", "y"}

\* a compiler with the chain of tables
WithSymbols(symbols) == [CompilerNew EXCEPT !.symbols = symbols]

InitSymbols ==
  /\ mode = "symbols"
  /\ envs = <<>>
  /\ cur = 0
  /\ heap = <<>>
  /\ out = <<>>
  /\ status = "ok"
  /\ prog = <<>>
  /\ last = [op |-> "new"]
  /\ res = None
  /\ vm = None
  /\ lex = None
  /\ imports = None
  /\ builtins = None
  /\ symbol_table = CompilerNew.symbols

SymbolsDefine ==
  /\ mode = "symbols"
  /\ Symbols(WithSymbols(symbol_table)).num_definitions < MaxDefinitions
  /\ \E name \in SymbolNames :
       /\ symbol_table' = Define(WithSymbols(symbol_table), name).symbols
       /\ res' = Defined(WithSymbols(symbol_table'), name)
       /\ last' = [op |-> "define", name |-> name]
  /\ UNCHANGED <<mode, envs, cur, heap, out, status, prog, vm, lex, imports, builtins>>

SymbolsDefineBuiltin ==
  /\ mode = "symbols"
  /\ \E name \in SymbolNames :
       /\ name \notin DOMAIN Symbols(WithSymbols(symbol_table)).store
       /\ symbol_table' = DefineBuiltin(WithSymbols(symbol_table), 0, name).symbols
       /\ res' = Symbol("Builtin", 0)
       /\ last' = [op |-> "define_builtin", name |-> name]
  /\ UNCHANGED <<mode, envs, cur, heap, out, status, prog, vm, lex, imports, builtins>>

SymbolsEnterScope ==
  /\ mode = "symbols"
  /\ Len(symbol_table) < MaxScopes
  /\ symbol_table' = EnterScope(WithSymbols(symbol_table)).symbols
  /\ res' = None
  /\ last' = [op |-> "enter_scope"]
  /\ UNCHANGED <<mode, envs, cur, heap, out, status, prog, vm, lex, imports, builtins>>

SymbolsLeaveScope ==
  /\ mode = "symbols"
  /\ Len(symbol_table) > 1
  /\ symbol_table' = LeaveScope(WithSymbols(symbol_table)).symbols
  /\ res' = None
  /\ last' = [op |-> "leave_scope"]
  /\ UNCHANGED <<mode, envs, cur, heap, out, status, prog, vm, lex, imports, builtins>>

SymbolsResolve ==
  /\ mode = "symbols"
  /\ \E name \in SymbolNames :
       /\ res' = Resolve(WithSymbols(symbol_table), name)
       /\ symbol_table' = DefineFree(WithSymbols(symbol_table), name).symbols
       /\ last' = [op |-> "resolve", name |-> name, from |-> symbol_table]
  /\ UNCHANGED <<mode, envs, cur, heap, out, status, prog, vm, lex, imports, builtins>>

NextSymbols ==
  \/ SymbolsDefine
  \/ SymbolsDefineBuiltin
  \/ SymbolsEnterScope
  \/ SymbolsLeaveScope
  \/ SymbolsResolve

SpecSymbols == InitSymbols /\ [][NextSymbols]_vars

\* the symbol to which the tables 1..n bind a name, looking outwards from
\* table n: the innermost store that has the name decides (None: unbound)
RECURSIVE BoundIn(_, _, _)
BoundIn(symbols, n, name) ==
  IF n = 0 THEN None
  ELSE IF name \in DOMAIN symbols[n].store THEN symbols[n].store[name]
  ELSE BoundIn(symbols, n - 1, name)

\* C27: after resolve of a name that the current table did not hold: if an
\* enclosing table binds it Local or Free, the result is a Free symbol whose
\* index is the position of the recorded original in the current table's
\* free_symbols, and the recorded original is held, with the same scope and
\* index, by the store of the directly enclosing table; if an enclosing table
\* binds it Global or Builtin, the result is that symbol and free_symbols is
\* unchanged
C27_FreeSymbolsConsistent ==
  (mode = "symbols" /\ last.op = "resolve" /\ Len(last.from) > 1
   /\ last.name \notin DOMAIN last.from[Len(last.from)].store
   /\ BoundIn(last.from, Len(last.from) - 1, last.name) # None) =>
    LET n == Len(symbol_table)
        bound == BoundIn(last.from, n - 1, last.name)
        free_symbols == symbol_table[n].free_symbols
    IN IF bound.scope \in {"Global", "Builtin"}
       THEN res = bound /\ symbol_table = last.from
       ELSE /\ res.scope = "Free"
            /\ res.index < Len(free_symbols)
            /\ free_symbols[res.index + 1].name = last.name
            /\ last.name \in DOMAIN symbol_table[n - 1].store
            /\ symbol_table[n - 1].store[last.name] =
                 Symbol(free_symbols[res.index + 1].scope, free_symbols[res.index + 1].index)

(***************************************************************************)
(* SpecBuiltins: the registry of built-in functions.  Builtins::new is run  *)
(* on the keys in some order of iteration of the HashMap (the order of      *)
(* insertion or its reverse, rotated), then names and indices are looked    *)
(* up.                                                                      *)
(***************************************************************************)
MaxRot == 5

MaxIndex == 14

Rotate(keys, k) == [i \in 1..Len(keys) |-> keys[((i - 1 + k) % Len(keys)) + 1]]

Reverse(keys) == [i \in 1..Len(keys) |-> keys[Len(keys) + 1 - i]]

KeyOrders ==
  {Rotate(NewBuiltins, k) : k \in 0..MaxRot}
  \cup {Rotate(Reverse(NewBuiltins), k) : k \in 0..MaxRot}

InitBuiltins ==
  /\ mode = "builtins"
  /\ envs = <<>>
  /\ cur = 0
  /\ heap = <<>>
  /\ out = <<>>
  /\ status = "ok"
  /\ last = [op |-> "new"]
  /\ res = None
  /\ vm = None
  /\ lex = None
  /\ imports = None
  /\ symbol_table = None
  /\ \E keys \in KeyOrders :
       /\ prog = [keys |-> keys]
       /\ builtins = BuiltinsNew(keys)

BuiltinsGetIndex ==
  /\ mode = "builtins"
  /\ \E name \in BuiltinNames \cup {"clock"} :
       /\ res' = GetIndex(builtins, name)
       /\ last' = [op |-> "get_index", arg |-> name]
  /\ UNCHANGED <<mode, envs, cur, heap, out, status, prog, vm, lex, imports, builtins, symbol_table>>

BuiltinsGetByIndex ==
  /\ mode = "builtins"
  /\ \E index \in 0..MaxIndex :
       /\ res' = GetByIndex(builtins, index)
       /\ last' = [op |-> "get_by_index", arg |-> index]
  /\ UNCHANGED <<mode, envs, cur, heap, out, status, prog, vm, lex, imports, builtins, symbol_table>>

BuiltinsGetName ==
  /\ mode = "builtins"
  /\ \E index \in 0..MaxIndex :
       /\ res' = GetName(builtins, index)
       /\ last' = [op |-> "get_name", arg |-> index]
  /\ UNCHANGED <<mode, envs, cur, heap, out, status, prog, vm, lex, imports, builtins, symbol_table>>

NextBuiltins == BuiltinsGetIndex \/ BuiltinsGetByIndex \/ BuiltinsGetName

SpecBuiltins == InitBuiltins /\ [][NextBuiltins]_vars

\* C23: the name and index lookups of the registry are inverse to each other:
\* every registered name has an index whose name and Builtin are that name's,
\* every index below the count is the index of its name, the names stand in
\* ascending order of their bytes, an index at or beyond the count yields
\* None, and each lookup returns just that after any sequence of lookups
C23_RegistryLookupsInverse ==
  mode = "builtins" =>
    /\ \A n \in BuiltinNames :
         /\ GetIndex(builtins, n) # <<>>
         /\ GetName(builtins, GetIndex(builtins, n)[1]) = <<n>>
         /\ GetByIndex(builtins, GetIndex(builtins, n)[1]) = Builtin(n)
    /\ \A i \in 0..(Cardinality(BuiltinNames) - 1) :
         /\ GetName(builtins, i) # <<>>
         /\ GetName(builtins, i)[1] \in BuiltinNames
         /\ GetIndex(builtins, GetName(builtins, i)[1]) = <<i>>
         /\ \A j \in 0..(i - 1) :
              StrLess(GetName(builtins, j)[1], GetName(builtins, i)[1])
    /\ \A i \in Cardinality(BuiltinNames)..MaxIndex :
         GetName(builtins, i) = <<>> /\ GetByIndex(builtins, i) = None
    /\ GetIndex(builtins, "clock") = <<>>
    /\ last.op = "get_index" => res = GetIndex(builtins, last.arg)
    /\ last.op = "get_by_index" => res = GetByIndex(builtins, last.arg)
    /\ last.op = "get_name" => res = GetName(builtins, last.arg)

\* the keys came unsorted and println was looked up: index 6, as in
\* append, intval, is_number, is_str, len, print, println
C23_PrintlnLookedUp ==
  /\ mode = "builtins"
  /\ prog.keys # builtins.indexs
  /\ last = [op |-> "get_index", arg |-> "println"]
  /\ res = <<6>>
  /\ GetByIndex(builtins, 6) = Builtin("println")

====
